---- MODULE Spec2Model ----
(***************************************************************************)
(* A model of wheelfile.py (MrMino/wheelfile): the WheelFile session over  *)
(* a zip archive, its three metadata models (MetaData, WheelData,          *)
(* WheelRecord) and the from_wheelfile clone operation.                    *)
(*                                                                         *)
(* Text is modelled as a sequence of tokens.  A token is a chunk of        *)
(* characters that none of the modelled string operations (split('/'),     *)
(* lstrip('/'), endswith, split(','), join) ever cuts in two, so the       *)
(* operations below act on token sequences exactly as the Python ones act  *)
(* on the characters.  File contents are token sequences as well.          *)
(***************************************************************************)
EXTENDS Integers, Sequences, FiniteSets, TLC

VARIABLES
    zip,      \* the ZipFile of the session: entries, NameToInfo (latest entry per name), fp
    wf,       \* the WheelFile object: mode, metadata, wheeldata, record
    last,     \* the last call made on the session and how it ended
    calls,    \* number of calls made so far other than close (bounded by MaxCalls)
    pure,     \* input and output of the pure (de)serialisation functions
    rd,       \* a session opened in read mode by _read_distinfo
    cl,       \* a from_wheelfile call: source, arguments, outcome
    ct,       \* a WheelFile() call: target, mode, identity arguments, outcome
    rc,       \* a WheelRecord object, the last call made on it and how it ended
    bd        \* the wheels built so far from a directory tree, each by a session of its own

vars == <<zip, wf, last, calls, pure, rd, cl, ct, rc, bd>>

\* ------------------------------------------------------------------ bounds

MaxCalls == 2

\* the number of calls made on a WheelRecord
MaxRecordCalls == 3

\* the number of wheels built from a directory tree
MaxBuilds == 2

\* the last reading of the clock
MaxClock == 2

\* ------------------------------------------------------------- optionals

NoneVal == [some |-> FALSE]

Some(v) == [some |-> TRUE, val |-> v]

IsNone(o) == ~o.some

\* the value of an expression, taken as the element of the set that holds only it
The(S) == CHOOSE x \in S : TRUE

\* ------------------------------------------------------- token sequences

Last(s) == s[Len(s)]

EndsWith(s, suffix) ==
    /\ Len(s) >= Len(suffix)
    /\ SubSeq(s, Len(s) - Len(suffix) + 1, Len(s)) = suffix

RECURSIVE LStrip(_, _)
LStrip(s, tok) ==
    IF s # <<>> /\ Head(s) = tok THEN LStrip(Tail(s), tok) ELSE s

\* s.split(sep)[0]
RECURSIVE SplitHead(_, _)
SplitHead(s, sep) ==
    IF s = <<>> \/ Head(s) = sep THEN <<>>
    ELSE <<Head(s)>> \o SplitHead(Tail(s), sep)

\* '/'.join(s.split(sep)[1:]): what follows the first separator
RECURSIVE SplitTail(_, _)
SplitTail(s, sep) ==
    IF s = <<>> THEN <<>>
    ELSE IF Head(s) = sep THEN Tail(s)
    ELSE SplitTail(Tail(s), sep)

RECURSIVE SeqToSet(_)
SeqToSet(s) == IF s = <<>> THEN {} ELSE {Head(s)} \cup SeqToSet(Tail(s))

\* ------------------------------------------------------------- WheelRecord

HashAlgo == "sha256"

\* every token of the model; a token's place in this list is its byte code
Alphabet ==
    << "/", ",", "\n", "\r\n", ": ", "=", "-", ".", ".dist-info", ".data", ".whl",
       "RECORD", "METADATA", "WHEEL", "None", "<None>", "sha256",
       "0", "1", "2", "3", "4", "5", "6", "7", "8", "9",
       "a", "b", "x", "y", "pkg", "sub", "notes", "purelib", "dir1", "dir2", "D", "_", "B1", "B2",
       "d", "e", "1.0", "2.1", "py3", "none", "any", "py2", "cp3", "true", "false",
       "wheelfile 0.0.8-1", "gen",
       "Metadata-Version", "Name", "Version", "Summary", "Description-Content-Type",
       "Keywords", "Classifier", "Author", "Author-email", "Maintainer",
       "Maintainer-email", "License", "Home-page", "Download-URL", "Project-URL",
       "Platform", "Supported-Platform", "Requires-Python", "Requires-Dist",
       "Requires-External", "Provides-Extra", "Provides-Dist", "Obsoletes-Dist",
       "Wheel-Version", "Generator", "Root-Is-Purelib", "Tag", "Build",
       "not a valid file", "@", "bad", "cp2" >>

TokenCode(t) == CHOOSE i \in 1..Len(Alphabet) : Alphabet[i] = t

Base64Digits == <<"0", "1", "2", "3", "4", "5", "6", "7">>

DecimalDigits == <<"0", "1", "2", "3", "4", "5", "6", "7", "8", "9">>

\* str(n) of a natural number
RECURSIVE DecStr(_)
DecStr(n) ==
    IF n < 10 THEN <<DecimalDigits[n + 1]>>
    ELSE DecStr(n \div 10) \o <<DecimalDigits[(n % 10) + 1]>>

\* hashlib digest of a byte string, abstracted to a positional checksum
RECURSIVE Digest(_)
Digest(data) ==
    IF data = <<>> THEN 7
    ELSE (5 * Digest(Tail(data)) + TokenCode(Head(data))) % 64

\* WheelRecord._hash_encoder: the digest in the digits of the encoding
HashEncoder(n) == <<Base64Digits[(n \div 8) + 1], Base64Digits[(n % 8) + 1]>>

\* WheelRecord._entry: reads the stream to its end, size and hash of what was read
\* (the size is kept in its decimal text, as the RECORD rows carry it)
RecordEntry(arcpath, data) ==
    [path |-> arcpath,
     hash |-> <<HashAlgo, "=">> \o HashEncoder(Digest(data)),
     size |-> DecStr(Len(data))]

EmptyRecord == <<>>

RecordHas(records, arcpath) == \E i \in 1..Len(records) : records[i].path = arcpath

RecordGet(records, arcpath) ==
    records[CHOOSE i \in 1..Len(records) : records[i].path = arcpath]

\* a faulty update that adds an entry only under a new key (the entry of a path
\* written again goes stale); RecordSynchronized must tell it from RecordPut
RecordPutIfMissing(records, entry) ==
    IF RecordHas(records, entry.path) THEN records ELSE Append(records, entry)

\* dict assignment self._records[arcpath] = entry: an existing key keeps its place
RecordPut(records, entry) ==
    IF RecordHas(records, entry.path)
    THEN [i \in 1..Len(records) |->
            IF records[i].path = entry.path THEN entry ELSE records[i]]
    ELSE Append(records, entry)

DistInfoRecordSuffix == <<".dist-info", "/", "RECORD">>

\* an update that takes the path of a directory as it takes any other
RecordUpdateAnyPath(records, arcpath, data, pos) ==
    IF pos # 0 \/ EndsWith(arcpath, DistInfoRecordSuffix)
    THEN [exc |-> "AssertionError", records |-> records]
    ELSE [exc |-> "none", records |-> RecordPut(records, RecordEntry(arcpath, data))]

\* WheelRecord.update: the outcome and the records after it
RecordUpdate(records, arcpath, data, pos) ==
    IF pos # 0 \/ EndsWith(arcpath, DistInfoRecordSuffix)
    THEN [exc |-> "AssertionError", records |-> records]
    ELSE IF EndsWith(arcpath, <<"/">>)
    THEN [exc |-> "RecordContainsDirectoryError", records |-> records]
    ELSE [exc |-> "none", records |-> RecordPut(records, RecordEntry(arcpath, data))]

\* WheelRecord.remove: del self._records[arcpath]
RecordRemove(records, arcpath) ==
    IF ~RecordHas(records, arcpath) THEN [exc |-> "KeyError", records |-> records]
    ELSE [exc |-> "none",
          records |-> SelectSeq(records, LAMBDA e : e.path # arcpath)]

\* csv.DictWriter.writerow: path,hash,size and the csv line terminator
RecordRow(entry) ==
    entry.path \o <<",">> \o entry.hash \o <<",">> \o entry.size \o <<"\r\n">>

\* WheelRecord.__str__: one csv row per entry, in insertion order
RECURSIVE RecordStr(_)
RecordStr(records) ==
    IF records = <<>> THEN <<>>
    ELSE RecordRow(Head(records)) \o RecordStr(Tail(records))

\* str(None): what str(self.record) is when the record attribute is None
NoneText == <<"None">>

\* ------------------------------------------------- email-style messages

\* the None object held by a string attribute
PyNone == <<"<None>">>

\* sep.join(list)
RECURSIVE Join(_, _)
Join(list, sep) ==
    IF list = <<>> THEN <<>>
    ELSE IF Len(list) = 1 THEN list[1]
    ELSE list[1] \o <<sep>> \o Join(Tail(list), sep)

\* s.split(sep): never empty, ''.split(sep) is ['']
RECURSIVE Split(_, _)
Split(s, sep) ==
    IF \A i \in 1..Len(s) : s[i] # sep THEN <<s>>
    ELSE <<SplitHead(s, sep)>> \o Split(SplitTail(s, sep), sep)

\* EmailMessage.add_header followed by str(): one "Name: value" line
HeaderLine(field, value) == <<field, ": ">> \o value \o <<"\n">>

RECURSIVE HeaderLines(_, _)
HeaderLines(field, values) ==
    IF values = <<>> THEN <<>>
    ELSE HeaderLine(field, Head(values)) \o HeaderLines(field, Tail(values))

IsHeaderLine(line) == Len(line) >= 2 /\ line[2] = ": "

\* email.message_from_string: header lines up to the first blank line, then the
\* payload; a line that is no header starts the payload
RECURSIVE ParseMessage(_)
ParseMessage(text) ==
    IF text = <<>> THEN [headers |-> <<>>, payload |-> <<>>]
    ELSE LET line == SplitHead(text, "\n")
             rest == SplitTail(text, "\n")
         IN  IF line = <<>> THEN [headers |-> <<>>, payload |-> rest]
             ELSE IF IsHeaderLine(line)
             THEN LET p == ParseMessage(rest)
                  IN  [headers |-> <<[name |-> line[1],
                                      value |-> SubSeq(line, 3, Len(line))]>> \o p.headers,
                       payload |-> p.payload]
             ELSE [headers |-> <<>>, payload |-> text]

MsgHas(m, field) == \E i \in 1..Len(m.headers) : m.headers[i].name = field

\* Message.get: the first header of that name
MsgGet(m, field) ==
    m.headers[CHOOSE i \in 1..Len(m.headers) :
                /\ m.headers[i].name = field
                /\ \A j \in 1..(i - 1) : m.headers[j].name # field].value

\* Message.get_all: every header of that name, in order
RECURSIVE GetAllFrom(_, _)
GetAllFrom(headers, field) ==
    IF headers = <<>> THEN <<>>
    ELSE (IF Head(headers).name = field THEN <<Head(headers).value>> ELSE <<>>)
         \o GetAllFrom(Tail(headers), field)

MsgGetAll(m, field) == GetAllFrom(m.headers, field)

\* del m[field]
RECURSIVE DelHeader(_, _)
DelHeader(headers, field) ==
    IF headers = <<>> THEN <<>>
    ELSE (IF Head(headers).name = field THEN <<>> ELSE <<Head(headers)>>)
         \o DelHeader(Tail(headers), field)

\* the lines of a csv text: each ends at a line terminator or at the end of the text
RECURSIVE CsvLines(_)
CsvLines(text) ==
    IF text = <<>> THEN <<>>
    ELSE IF \A i \in 1..Len(text) : text[i] # "\r\n" THEN <<text>>
    ELSE <<SplitHead(text, "\r\n")>> \o CsvLines(SplitTail(text, "\r\n"))

\* csv.DictReader over the fields path, hash, size: a blank line is skipped and a
\* short row is filled up with None
CsvField(fields, i) == IF i <= Len(fields) THEN fields[i] ELSE <<"<None>">>

RECURSIVE RecordRows(_)
RecordRows(lines) ==
    IF lines = <<>> THEN <<>>
    ELSE IF Head(lines) = <<>> THEN RecordRows(Tail(lines))
    ELSE <<Split(Head(lines), ",")>> \o RecordRows(Tail(lines))

RECURSIVE RecordFromRows(_, _)
RecordFromRows(rows, records) ==
    IF rows = <<>> THEN [exc |-> "none", records |-> records]
    ELSE IF Len(Head(rows)) > 3 THEN [exc |-> "TypeError", records |-> records]
    ELSE IF EndsWith(Head(rows)[1], <<"/">>)
    THEN [exc |-> "RecordContainsDirectoryError", records |-> records]
    ELSE RecordFromRows(Tail(rows),
                        RecordPut(records, [path |-> Head(rows)[1],
                                            hash |-> CsvField(Head(rows), 2),
                                            size |-> CsvField(Head(rows), 3)]))

\* WheelRecord.from_str
RecordFromStr(text) == RecordFromRows(RecordRows(CsvLines(text)), EmptyRecord)

\* ------------------------------------------------------------------ MetaData

\* MetaData.__slots__: the parameters of __init__, in order
Slots ==
    << "name", "version", "summary", "description", "description_content_type",
       "keywords", "classifiers", "author", "author_email", "maintainer",
       "maintainer_email", "license", "home_page", "download_url", "project_urls",
       "platforms", "supported_platforms", "requires_python", "requires_dists",
       "requires_externals", "provides_extras", "provides_dists", "obsoletes_dists" >>

\* the attributes holding a list
ListSlots ==
    { "keywords", "classifiers", "project_urls", "platforms", "supported_platforms",
      "requires_dists", "requires_externals", "provides_extras", "provides_dists",
      "obsoletes_dists" }

\* MetaData.field_is_multiple_use on an attribute name
FieldIsMultipleUse(attr) == attr \in ListSlots \ {"keywords"}

\* MetaData._field_name: the header of an attribute (singular for a multiple
\* use field, title case, '-' for '_', and the URL, -page, -email spellings)
FieldName(attr) ==
    CASE attr = "name" -> "Name"
      [] attr = "version" -> "Version"
      [] attr = "summary" -> "Summary"
      [] attr = "description" -> "Description"
      [] attr = "description_content_type" -> "Description-Content-Type"
      [] attr = "keywords" -> "Keywords"
      [] attr = "classifiers" -> "Classifier"
      [] attr = "author" -> "Author"
      [] attr = "author_email" -> "Author-email"
      [] attr = "maintainer" -> "Maintainer"
      [] attr = "maintainer_email" -> "Maintainer-email"
      [] attr = "license" -> "License"
      [] attr = "home_page" -> "Home-page"
      [] attr = "download_url" -> "Download-URL"
      [] attr = "project_urls" -> "Project-URL"
      [] attr = "platforms" -> "Platform"
      [] attr = "supported_platforms" -> "Supported-Platform"
      [] attr = "requires_python" -> "Requires-Python"
      [] attr = "requires_dists" -> "Requires-Dist"
      [] attr = "requires_externals" -> "Requires-External"
      [] attr = "provides_extras" -> "Provides-Extra"
      [] attr = "provides_dists" -> "Provides-Dist"
      [] attr = "obsoletes_dists" -> "Obsoletes-Dist"

KnownField(field) == \E i \in 1..Len(Slots) : FieldName(Slots[i]) = field

MetadataVersion == <<"2.1">>

\* packaging.version.Version(s): the versions the model knows to be valid
ValidVersions == {<<"1">>, <<"2">>, <<"1.0">>}

\* `not content` for the value of an attribute
Falsy(attr, content) ==
    IF attr \in ListSlots THEN content = <<>>
    ELSE IF attr = "version" THEN FALSE
    ELSE content = <<>> \/ content = PyNone

\* the header lines MetaData.__str__ adds for one attribute
MetaDataHeader(md, attr) ==
    IF Falsy(attr, md[attr]) \/ attr = "description" THEN <<>>
    ELSE IF attr = "keywords" THEN HeaderLine("Keywords", Join(md[attr], ","))
    ELSE IF FieldIsMultipleUse(attr) THEN HeaderLines(FieldName(attr), md[attr])
    ELSE HeaderLine(FieldName(attr), md[attr])

RECURSIVE MetaDataHeaders(_, _)
MetaDataHeaders(md, slots) ==
    IF slots = <<>> THEN <<>>
    ELSE MetaDataHeader(md, Head(slots)) \o MetaDataHeaders(md, Tail(slots))

\* MetaData.__str__
MetaDataStr(md) ==
    HeaderLine("Metadata-Version", MetadataVersion)
    \o MetaDataHeaders(md, Slots)
    \o <<"\n">>
    \o (IF Falsy("description", md.description) THEN <<>> ELSE md.description)

\* MetaData.__init__ applied to the keyword arguments from_str collects: a
\* missing argument takes the default of its parameter
MetaDataInitArg(m, attr) ==
    LET field == FieldName(attr)
    IN  IF attr = "description" THEN m.payload
        ELSE IF attr = "keywords"
        THEN (IF MsgHas(m, field) THEN Split(MsgGet(m, field), ",") ELSE <<>>)
        ELSE IF attr \in ListSlots THEN MsgGetAll(m, field)
        ELSE IF MsgHas(m, field) THEN MsgGet(m, field)
        ELSE PyNone

\* MetaData.from_str: the outcome and, when it returns, the object
MetaDataFromStr(text) ==
    LET parsed == ParseMessage(text)
        m == [parsed EXCEPT !.headers = DelHeader(@, "Metadata-Version")]
    IN  IF \E i \in 1..Len(m.headers) : ~KnownField(m.headers[i].name)
        THEN [exc |-> "ValueError"]
        ELSE IF ~MsgHas(m, "Name") \/ ~MsgHas(m, "Version")
        THEN [exc |-> "TypeError"]
        ELSE IF MsgGet(m, "Version") \notin ValidVersions
        THEN [exc |-> "InvalidVersion"]
        ELSE [exc |-> "none",
              val |-> [attr \in SeqToSet(Slots) |-> MetaDataInitArg(m, attr)]]

\* MetaData.__eq__
MetaDataEq(a, b) ==
    /\ \A attr \in SeqToSet(Slots) \ {"description"} : a[attr] = b[attr]
    /\ (IF a.description = PyNone THEN <<>> ELSE a.description)
         = (IF b.description = PyNone THEN <<>> ELSE b.description)

\* MetaData(name=..., version=...): every other parameter at its default
NewMetaData(name, version) ==
    [attr \in SeqToSet(Slots) |->
        IF attr = "name" THEN name
        ELSE IF attr = "version" THEN version
        ELSE IF attr \in ListSlots THEN <<>>
        ELSE PyNone]

\* ----------------------------------------------------------------- WheelData

WheelVersion == <<"1.0">>

DefaultGenerator == <<"wheelfile 0.0.8-1">>

\* packaging.tags.parse_tag: the set of simple tags of a compressed tag; the
\* unpacking of tag.split("-") into three names fails for any other shape
TagShapeOk(tag) == Len(Split(tag, "-")) = 3

\* a parse_tag that takes only the first abi of a compressed tag
ParseTagFirstAbi(tag) ==
    LET parts == Split(tag, "-")
    IN  { i \o <<"-">> \o Head(Split(parts[2], ".")) \o <<"-">> \o p :
            i \in SeqToSet(Split(parts[1], ".")),
            p \in SeqToSet(Split(parts[3], ".")) }

ParseTag(tag) ==
    LET parts == Split(tag, "-")
    IN  { i \o <<"-">> \o a \o <<"-">> \o p :
            i \in SeqToSet(Split(parts[1], ".")),
            a \in SeqToSet(Split(parts[2], ".")),
            p \in SeqToSet(Split(parts[3], ".")) }

\* the orders in which iterating a frozenset may yield its elements
Orderings(S) ==
    { f \in [1..Cardinality(S) -> S] : \A x \in S : \E i \in 1..Cardinality(S) : f[i] = x }

\* WheelData._extend_tags: the lists it may return
RECURSIVE ExtendTags(_)
ExtendTags(tags) ==
    IF tags = <<>> THEN {<<>>}
    ELSE { h \o t : h \in Orderings(ParseTag(Head(tags))), t \in ExtendTags(Tail(tags)) }

\* WheelData.__init__: the objects the constructor may build
NewWheelData(generator, root_is_purelib, tags, build) ==
    { [generator |-> generator, root_is_purelib |-> root_is_purelib, tags |-> t,
       build |-> build] : t \in ExtendTags(tags) }

\* int(s) succeeds on the decimal text of a number
IsDecimal(s) == s # <<>> /\ \A i \in 1..Len(s) : s[i] \in SeqToSet(DecimalDigits)

DigitValue(d) == (CHOOSE i \in 1..10 : DecimalDigits[i] = d) - 1

RECURSIVE ParseInt(_)
ParseInt(s) ==
    IF Len(s) = 1 THEN DigitValue(s[1])
    ELSE 10 * ParseInt(SubSeq(s, 1, Len(s) - 1)) + DigitValue(Last(s))

\* the assertions at the head of WheelData.__str__
WheelDataStrOk(w) == w.generator # PyNone /\ w.tags # <<>>

\* WheelData.__str__
WheelDataStr(w) ==
    HeaderLine("Wheel-Version", WheelVersion)
    \o HeaderLine("Generator", w.generator)
    \o HeaderLine("Root-Is-Purelib", IF w.root_is_purelib THEN <<"true">> ELSE <<"false">>)
    \o HeaderLines("Tag", w.tags)
    \o (IF IsNone(w.build) THEN <<>> ELSE HeaderLine("Build", DecStr(w.build.val)))
    \o <<"\n">>

\* a value of Python with its type: the attributes of a WheelData object take
\* whatever they are assigned (a value of another type than the attribute is
\* meant for is held as its text, truth value, elements or number)
Py(type, val) == [type |-> type, val |-> val]

\* assertions that refuse an empty generator as well
WheelDataAssertsNonEmpty(obj) ==
    /\ obj.generator.type = "str" /\ obj.generator.val # <<>>
    /\ obj.root_is_purelib.type = "bool"
    /\ obj.tags.type = "list"
    /\ obj.tags.val # <<>>
    /\ obj.build.type \in {"int", "NoneType"}

\* the assertions at the head of WheelData.__str__, on attributes of any type
WheelDataAsserts(obj) ==
    /\ obj.generator.type = "str"
    /\ obj.root_is_purelib.type = "bool"
    /\ obj.tags.type = "list"
    /\ obj.tags.val # <<>>
    /\ obj.build.type \in {"int", "NoneType"}

\* EmailMessage.add_header refuses a value with a line break in it
HasLineBreak(value) == \E i \in 1..Len(value) : value[i] \in {"\n", "\r\n"}

\* str(w) of a WheelData whose attributes were assigned (the tags, when a list,
\* a list of strings)
WheelDataStrOf(obj) ==
    IF ~WheelDataAsserts(obj) THEN [exc |-> "AssertionError"]
    ELSE IF HasLineBreak(obj.generator.val)
            \/ \E i \in 1..Len(obj.tags.val) : HasLineBreak(obj.tags.val[i])
    THEN [exc |-> "ValueError"]
    ELSE [exc |-> "none",
          val |-> WheelDataStr([generator |-> obj.generator.val,
                                root_is_purelib |-> obj.root_is_purelib.val,
                                tags |-> obj.tags.val,
                                build |-> IF obj.build.type = "NoneType" THEN NoneVal
                                          ELSE Some(obj.build.val)])]

\* bool(m.get('Root-Is-Purelib')): a missing header is None, and of a string
\* only the empty one is false
RootIsPurelibArg(m) ==
    IF MsgHas(m, "Root-Is-Purelib") THEN MsgGet(m, "Root-Is-Purelib") # <<>> ELSE FALSE

\* WheelData.from_str: the outcomes and, when it returns, the objects it may return
WheelDataFromStr(text) ==
    LET m == ParseMessage(text)
    IN  IF ~MsgHas(m, "Wheel-Version") \/ MsgGet(m, "Wheel-Version") # WheelVersion
        THEN {[exc |-> "AssertionError"]}
        ELSE IF MsgHas(m, "Build") /\ ~IsDecimal(MsgGet(m, "Build"))
        THEN {[exc |-> "ValueError"]}
        ELSE IF ~MsgHas(m, "Tag")
        THEN {[exc |-> "AttributeError"]}
        ELSE IF \E i \in 1..Len(MsgGetAll(m, "Tag")) : ~TagShapeOk(MsgGetAll(m, "Tag")[i])
        THEN {[exc |-> "ValueError"]}
        ELSE { [exc |-> "none",
                val |-> w] :
               w \in NewWheelData(IF MsgHas(m, "Generator")
                                  THEN MsgGet(m, "Generator") ELSE PyNone,
                                  RootIsPurelibArg(m),
                                  MsgGetAll(m, "Tag"),
                                  IF MsgHas(m, "Build")
                                  THEN Some(ParseInt(MsgGet(m, "Build"))) ELSE NoneVal) }

\* WheelData.__eq__
WheelDataEq(a, b) ==
    /\ a.generator = b.generator
    /\ a.root_is_purelib = b.root_is_purelib
    /\ a.tags = b.tags
    /\ a.build = b.build

\* ------------------------------------------------------------------- ZipFile

\* the attributes of a ZipInfo that ZipFile.writestr builds from a plain name
DefaultAttrs == "default"

\* ZipInfo(filename): what writestr makes of its first argument
AsZipInfo(zinfo_or_arcname) ==
    IF zinfo_or_arcname.iszinfo THEN zinfo_or_arcname
    ELSE [zinfo_or_arcname EXCEPT !.attrs = DefaultAttrs]

ArcStr(arcname) == [iszinfo |-> FALSE, filename |-> arcname, attrs |-> DefaultAttrs]

ArcZipInfo(arcname, attrs) == [iszinfo |-> TRUE, filename |-> arcname, attrs |-> attrs]

ZipHas(z, name) == \E i \in 1..Len(z.entries) : z.entries[i].filename = name

\* ZipFile.getinfo: NameToInfo holds the entry written last under a name
ZipGetInfo(z, name) ==
    z.entries[CHOOSE i \in 1..Len(z.entries) :
                /\ z.entries[i].filename = name
                /\ \A j \in (i + 1)..Len(z.entries) : z.entries[j].filename # name]

\* ZipFile.read / ZipFile.open(name).read()
ZipRead(z, name) == ZipGetInfo(z, name).data

\* a writestr that takes an entry after the archive was closed
ZipWriteStrWhenClosed(z, zinfo_or_arcname, data) ==
    IF z.mode = "r" THEN [exc |-> "ValueError", zip |-> z]
    ELSE [exc |-> "none",
          zip |-> [z EXCEPT !.entries =
                     Append(@, [filename |-> zinfo_or_arcname.filename, data |-> data,
                                attrs |-> IF zinfo_or_arcname.iszinfo
                                          THEN zinfo_or_arcname.attrs ELSE "default"])]]

\* ZipFile.writestr: refuses a closed archive and an archive opened for reading,
\* and otherwise appends an entry (a second entry under a name it already holds)
ZipWriteStr(z, zinfo_or_arcname, data) ==
    IF ~z.fp \/ z.mode = "r" THEN [exc |-> "ValueError", zip |-> z]
    ELSE [exc |-> "none",
          zip |-> [z EXCEPT !.entries =
                      Append(@, [filename |-> zinfo_or_arcname.filename,
                                 data |-> data,
                                 attrs |-> AsZipInfo(zinfo_or_arcname).attrs])]]

\* ZipFile.close: fp becomes None
ZipClose(z) == [z EXCEPT !.fp = FALSE]

\* ----------------------------------------------------------------- WheelFile

MetadataFilenames == {<<"WHEEL">>, <<"METADATA">>, <<"RECORD">>}

\* 'r' in mode, and 'l' in mode
ReadMode(mode) == mode \in {"r", "rl"}

Lazy(mode) == mode \in {"rl", "wl"}

\* WheelFile.closed
Closed(z) == ~z.fp

\* WheelFile._distinfo_path: kind is ".dist-info" or ".data"
DistinfoPath(w, filename, kind) == w.prefix \o <<kind, "/">> \o filename

\* WheelFile.distinfo_dirname and data_dirname: the path of "" less its last character
DistinfoDirname(w) == w.prefix \o <<".dist-info">>

DataDirname(w) == w.prefix \o <<".data">>

\* a call's result: how it ended, the archive and the session after it
Result(exc, z, w) == [exc |-> exc, zip |-> z, wf |-> w]

\* a refresh that looks at the session being closed before it looks at the path
RefreshRecordClosedFirst(z, w, arcname) ==
    IF IsNone(w.record) THEN [exc |-> "none", zip |-> z, wf |-> w]
    ELSE IF ~z.fp THEN [exc |-> "RuntimeError", zip |-> z, wf |-> w]
    ELSE IF EndsWith(arcname, <<"/">>) THEN [exc |-> "none", zip |-> z, wf |-> w]
    ELSE IF ~ZipHas(z, arcname) THEN [exc |-> "KeyError", zip |-> z, wf |-> w]
    ELSE LET u == RecordUpdate(w.record.val, arcname, ZipRead(z, arcname), 0)
         IN  [exc |-> u.exc, zip |-> z, wf |-> [w EXCEPT !.record = Some(u.records)]]

\* WheelFile.refresh_record
RefreshRecord(z, w, arcname) ==
    IF IsNone(w.record) THEN Result("none", z, w)
    ELSE IF EndsWith(arcname, <<"/">>) THEN Result("none", z, w)
    ELSE IF Closed(z) THEN Result("RuntimeError", z, w)
    ELSE IF ~ZipHas(z, arcname) THEN Result("KeyError", z, w)
    ELSE LET u == RecordUpdate(w.record.val, arcname, ZipRead(z, arcname), 0)
         IN  Result(u.exc, z, [w EXCEPT !.record = Some(u.records)])

\* WheelFile.writestr
WriteStr(z, w, zinfo_or_arcname, data) ==
    LET written == ZipWriteStr(z, zinfo_or_arcname, data)
    IN  IF written.exc # "none" THEN Result(written.exc, z, w)
        ELSE RefreshRecord(written.zip, w, zinfo_or_arcname.filename)

\* WheelFile._check_section
CheckSectionOk(section) == section # <<>> /\ \A i \in 1..Len(section) : section[i] # "/"

\* WheelFile.writestr_data
WriteStrData(z, w, section, zinfo_or_arcname, data) ==
    IF ~CheckSectionOk(section) THEN Result("ValueError", z, w)
    ELSE WriteStr(z, w,
                  ArcStr(DistinfoPath(w, section \o <<"/">>
                                         \o LStrip(zinfo_or_arcname.filename, "/"), ".data")),
                  data)

\* WheelFile.writestr_distinfo
WriteStrDistinfo(z, w, zinfo_or_arcname, data) ==
    LET arcname == zinfo_or_arcname.filename
    IN  IF arcname \in MetadataFilenames \/ SplitHead(arcname, "/") \in MetadataFilenames
        THEN Result("ProhibitedWriteError", z, w)
        ELSE WriteStr(z, w, ArcStr(DistinfoPath(w, LStrip(arcname, "/"), ".dist-info")), data)

\* ---------------------------------------------------------- the filesystem

\* the directories and the files (with their bytes) that write() can be pointed at
FsDirs ==
    {<<"pkg">>, <<"pkg", "/", "sub">>, <<"dir1">>, <<"dir2">>,
     <<"D">>, <<"D", "/", "pkg">>, <<"D", "/", "sub">>}

FsFiles ==
    {<<"x">>, <<"METADATA">>, <<"RECORD">>, <<"pkg", "/", "a">>, <<"pkg", "/", "sub", "/", "b">>,
     <<"D", "/", "a">>, <<"D", "/", "b">>, <<"D", "/", "pkg", "/", "x">>, <<"D", "/", "sub", "/", "y">>}

FsData(path) ==
    CASE path = <<"x">> -> <<"x">>
      [] path = <<"METADATA">> -> <<"y">>
      [] path = <<"RECORD">> -> <<"y", "x">>
      [] path = <<"pkg", "/", "a">> -> <<"a">>
      [] path = <<"pkg", "/", "sub", "/", "b">> -> <<"b", "x">>
      [] path = <<"D", "/", "a">> -> <<"a">>
      [] path = <<"D", "/", "b">> -> <<>>
      [] path = <<"D", "/", "pkg", "/", "x">> -> <<"x">>
      [] path = <<"D", "/", "sub", "/", "y">> -> <<"y", "x">>

\* os.path.join of two components
PathJoin(a, b) ==
    IF b # <<>> /\ Head(b) = "/" THEN b
    ELSE IF a = <<>> \/ Last(a) = "/" THEN a \o b
    ELSE a \o <<"/">> \o b

\* the names os.walk reports in a directory
FsSubdirs(dir) == {<<n>> : n \in {m \in SeqToSet(Alphabet) : PathJoin(dir, <<m>>) \in FsDirs}}

FsSubfiles(dir) == {<<n>> : n \in {m \in SeqToSet(Alphabet) : PathJoin(dir, <<m>>) \in FsFiles}}

\* what os.walk may report: for each directory its subdirectories and its files,
\* each in the order in which the filesystem lists them
RECURSIVE ListingsOf(_)
ListingsOf(dirs) ==
    IF dirs = {} THEN {<<>>}
    ELSE LET d == CHOOSE e \in dirs : TRUE
         IN  { (d :> [dirs |-> ds, files |-> fs]) @@ rest :
                 ds \in Orderings(FsSubdirs(d)), fs \in Orderings(FsSubfiles(d)),
                 rest \in ListingsOf(dirs \ {d}) }

Listings == ListingsOf(FsDirs)

RECURSIVE DropEmpty(_)
DropEmpty(list) ==
    IF list = <<>> THEN <<>>
    ELSE (IF Head(list) = <<>> THEN <<>> ELSE <<Head(list)>>) \o DropEmpty(Tail(list))

\* os.path.normpath, then the leading separators stripped, as ZipInfo.from_file
\* does to an arcname (names of the model hold no '.' or '..' segments)
NormArcname(path) == Join(DropEmpty(Split(path, "/")), "/")

\* resolved(): os.path.basename(os.path.abspath(path))
Resolved(path) == Last(<< <<>> >> \o DropEmpty(Split(path, "/")))

\* the order of str on the names of the model
NameRank(name) == TokenCode(Head(name))

\* sorted(names)
RECURSIVE Sorted(_)
Sorted(S) ==
    IF S = {} THEN <<>>
    ELSE LET least == CHOOSE n \in S : \A m \in S : NameRank(n) <= NameRank(m)
         IN  <<least>> \o Sorted(S \ {least})

\* WheelFile._os_walk_path_to_arcpath
OsWalkPathToArcpath(prefix, directory, stem, arcname) ==
    LET arc == IF IsNone(arcname) THEN prefix ELSE arcname.val
        pre == (IF prefix # <<>> /\ Last(prefix) = "/"
                THEN SubSeq(prefix, 1, Len(prefix) - 1) ELSE prefix) \o <<"/">>
    IN  PathJoin(PathJoin(arc, SubSeq(directory, Len(pre) + 1, Len(directory))), stem)

\* the (filepath, arcpath) pairs of the loop over os.walk(filename) in write(),
\* in the order of the loop: the directories that os.walk reported are sorted in
\* place, which is the order os.walk then descends in, and in each directory the
\* names of its directories (with '/' appended) and files are sorted together
RECURSIVE WalkItems(_, _, _, _)
WalkItems(common_root, root, root_arcname, listing) ==
    LET reported == listing[NormArcname(root)]
        dirs == Sorted(SeqToSet(reported.dirs))
        names == Sorted(SeqToSet([i \in 1..Len(dirs) |-> dirs[i] \o <<"/">>]
                                 \o reported.files))
        here == [i \in 1..Len(names) |->
                    [filepath |-> PathJoin(root, names[i]),
                     arcpath |-> OsWalkPathToArcpath(common_root, root, names[i],
                                                     root_arcname)]]
        Below[i \in 0..Len(dirs)] ==
            IF i = 0 THEN <<>>
            ELSE Below[i - 1]
                 \o WalkItems(common_root, PathJoin(root, dirs[i]), root_arcname, listing)
    IN  here \o Below[Len(dirs)]

\* the attributes ZipInfo.from_file takes from the file's stat
FromFileAttrs == "from_file"

\* WheelFile._write_to_zip
WriteToZip(z, w, filename, arcname, skipdir) ==
    LET fspath == NormArcname(filename)
        isdir == fspath \in FsDirs
        name == NormArcname(IF IsNone(arcname) THEN filename ELSE arcname.val)
        zinfo == ArcZipInfo(IF isdir THEN name \o <<"/">> ELSE name, FromFileAttrs)
    IN  IF fspath \notin FsDirs \cup FsFiles THEN Result("FileNotFoundError", z, w)
        ELSE IF isdir /\ skipdir THEN Result("none", z, w)
        ELSE LET written == ZipWriteStr(z, zinfo, IF isdir THEN <<>> ELSE FsData(fspath))
             IN  IF written.exc # "none" THEN Result(written.exc, z, w)
                 ELSE RefreshRecord(written.zip, w, zinfo.filename)

RECURSIVE WriteAllToZip(_, _, _, _)
WriteAllToZip(z, w, items, skipdir) ==
    IF items = <<>> THEN Result("none", z, w)
    ELSE LET r == WriteToZip(z, w, Head(items).filepath, Some(Head(items).arcpath), skipdir)
         IN  IF r.exc # "none" THEN r
             ELSE WriteAllToZip(r.zip, r.wf, Tail(items), skipdir)

\* WheelFile.write
Write(z, w, filename, arcname, recursive, resolve, skipdir, listing) ==
    LET arc == IF resolve /\ IsNone(arcname) THEN Some(Resolved(filename)) ELSE arcname
        first == WriteToZip(z, w, filename, arc, skipdir)
    IN  IF first.exc # "none" \/ ~recursive \/ NormArcname(filename) \notin FsDirs THEN first
        ELSE WriteAllToZip(first.zip, first.wf, WalkItems(filename, filename, arc, listing),
                           skipdir)

\* WheelFile.write_data
WriteData(z, w, filename, section, arcname, recursive, resolve, skipdir, listing) ==
    IF ~CheckSectionOk(section) THEN Result("ValueError", z, w)
    ELSE LET arc == IF IsNone(arcname) THEN Resolved(filename) ELSE arcname.val
         IN  Write(z, w, filename,
                   Some(DistinfoPath(w, section \o <<"/">> \o LStrip(arc, "/"), ".data")),
                   recursive, resolve, skipdir, listing)

\* WheelFile.write_distinfo
WriteDistinfo(z, w, filename, arcname, recursive, resolve, skipdir, listing) ==
    LET arc == IF resolve /\ IsNone(arcname) THEN Resolved(filename)
               ELSE IF IsNone(arcname) THEN filename
               ELSE arcname.val
    IN  IF arc = <<>> \/ arc \in MetadataFilenames THEN Result("ProhibitedWriteError", z, w)
        ELSE Write(z, w, filename, Some(DistinfoPath(w, arc, ".dist-info")),
                   recursive, TRUE, skipdir, listing)

\* str(self.record): of a WheelRecord, or of None
RecordText(record) == IF IsNone(record) THEN NoneText ELSE RecordStr(record.val)

\* WheelFile.close past its check of self.closed; a call that raises leaves what it
\* wrote in the archive
CloseOpen(z, w) ==
    IF ReadMode(w.mode) THEN Result("none", ZipClose(z), w)
    ELSE LET m == IF IsNone(w.metadata) THEN Result("none", z, w)
                  ELSE WriteStr(z, w, ArcStr(DistinfoPath(w, <<"METADATA">>, ".dist-info")),
                                MetaDataStr(w.metadata.val))
             h == IF m.exc # "none" \/ IsNone(w.wheeldata) THEN m
                  ELSE IF ~WheelDataStrOk(w.wheeldata.val)
                  THEN Result("AssertionError", m.zip, m.wf)
                  ELSE WriteStr(m.zip, m.wf,
                                ArcStr(DistinfoPath(w, <<"WHEEL">>, ".dist-info")),
                                WheelDataStr(w.wheeldata.val))
             r == IF h.exc # "none" THEN h
                  ELSE LET written == ZipWriteStr(h.zip,
                                          ArcStr(DistinfoPath(w, <<"RECORD">>, ".dist-info")),
                                          RecordText(h.wf.record))
                       IN  Result(written.exc, written.zip, h.wf)
         IN  IF r.exc # "none" THEN r ELSE Result("none", ZipClose(r.zip), r.wf)

\* a faulty close that does not look at self.closed and writes the dist-info files
\* again; CloseOnClosedIsNoop must tell it from Close
CloseAgain(z, w) == CloseOpen(z, w)

\* WheelFile.close
Close(z, w) == IF Closed(z) THEN Result("none", z, w) ELSE CloseOpen(z, w)

\* -------------------------------------------------------------- construction

\* what a session is opened on: an unnamed buffer (kind "buffer"), a file object
\* with a name ("fileobj"), or a path ("path") to a file or to a directory; the id
\* tells one buffer or file object from another
Target(kind, id, path) == [kind |-> kind, id |-> id, path |-> path]

\* the arguments distname, version, build_tag, language_tag, abi_tag and
\* platform_tag of __init__, each None or a value
IdentityArgs(distname, version, build_tag, language_tag, abi_tag, platform_tag) ==
    [distname |-> distname, version |-> version, build_tag |-> build_tag,
     language_tag |-> language_tag, abi_tag |-> abi_tag, platform_tag |-> platform_tag]

\* WheelFile._is_unnamed_or_directory
IsUnnamedOrDirectory(t) ==
    t.kind = "buffer" \/ (t.kind = "path" /\ NormArcname(t.path) \in FsDirs)

\* WheelFile._get_filename: None, or the last component of the path or of the name
GetFilename(t) == IF IsUnnamedOrDirectory(t) THEN NoneVal ELSE Some(Resolved(t.path))

\* WheelFile._pick_a_distname
PickDistname(filename, given_distname) ==
    IF ~IsNone(given_distname) THEN [exc |-> "none", val |-> given_distname.val]
    ELSE IF Split(filename.val, "-")[1] = <<>> THEN [exc |-> "UnnamedDistributionError"]
    ELSE [exc |-> "none", val |-> Split(filename.val, "-")[1]]

\* WheelFile._pick_a_version
PickVersion(filename, given_version) ==
    LET name_segments == Split(filename.val, "-")
    IN  IF IsNone(given_version) /\ (Len(name_segments) < 2 \/ name_segments[2] = <<>>)
        THEN [exc |-> "UnnamedDistributionError"]
        ELSE LET version == IF IsNone(given_version) THEN name_segments[2]
                            ELSE given_version.val
             IN  IF version \in ValidVersions THEN [exc |-> "none", val |-> version]
                 ELSE [exc |-> "ValueError"]

\* `given or default` on a string argument
GivenOr(given, default) == IF IsNone(given) \/ given.val = <<>> THEN default ELSE given.val

\* a _pick_tags that does not look at the filename
PickTagsUnnamed(filename, given_build, given_language, given_abi, given_platform) ==
    [build_tag |-> given_build,
     language_tag |-> GivenOr(given_language, <<"py3">>),
     abi_tag |-> GivenOr(given_abi, <<"none">>),
     platform_tag |-> GivenOr(given_platform, <<"any">>)]

\* a _pick_tags that falls back on py3, none and any for a file name that has
\* not five or six segments
PickTagsDefaulting(filename, given_build, given_language, given_abi, given_platform) ==
    LET stem == IF IsNone(filename) THEN <<>>
                ELSE IF EndsWith(filename.val, <<".whl">>)
                THEN SubSeq(filename.val, 1, Len(filename.val) - 1)
                ELSE filename.val
        split == Split(stem, "-")
        segments == IF Len(split) \in {5, 6} THEN split
                    ELSE << <<>>, <<>>, <<"py3">>, <<"none">>, <<"any">> >>
        n == Len(segments)
    IN  [build_tag |-> IF n = 6 /\ IsNone(given_build)
                       THEN (IF IsDecimal(segments[3]) THEN Some(ParseInt(segments[3]))
                             ELSE NoneVal)
                       ELSE given_build,
         language_tag |-> GivenOr(given_language, segments[n - 2]),
         abi_tag |-> GivenOr(given_abi, segments[n - 1]),
         platform_tag |-> GivenOr(given_platform, segments[n])]

\* WheelFile._pick_tags
PickTags(filename, given_build, given_language, given_abi, given_platform) ==
    IF IsNone(filename)
    THEN [build_tag |-> given_build,
          language_tag |-> GivenOr(given_language, <<"py3">>),
          abi_tag |-> GivenOr(given_abi, <<"none">>),
          platform_tag |-> GivenOr(given_platform, <<"any">>)]
    ELSE LET stem == IF EndsWith(filename.val, <<".whl">>)
                     THEN SubSeq(filename.val, 1, Len(filename.val) - 1)
                     ELSE filename.val
             split == Split(stem, "-")
             segments == IF Len(split) \in {5, 6} THEN split ELSE [i \in 1..5 |-> <<>>]
             n == Len(segments)
         IN  [build_tag |-> IF n = 6 /\ IsNone(given_build)
                            THEN (IF IsDecimal(segments[3]) THEN Some(ParseInt(segments[3]))
                                  ELSE NoneVal)
                            ELSE given_build,
              language_tag |-> GivenOr(given_language, segments[n - 2]),
              abi_tag |-> GivenOr(given_abi, segments[n - 1]),
              platform_tag |-> GivenOr(given_platform, segments[n])]

\* WheelFile._generate_filename
GenerateFilename(distname, version, build_tag, language_tag, abi_tag, platform_tag) ==
    Join(<<distname, version>>
         \o (IF IsNone(build_tag) THEN <<>> ELSE <<DecStr(build_tag.val)>>)
         \o <<language_tag, abi_tag, platform_tag>>, "-") \o <<".whl">>

\* packaging.utils.canonicalize_name(distname).replace("-", "_"): lower case, and
\* each of '-', '_' and '.' becomes '_'
CanonicalizeName(distname) ==
    [i \in 1..Len(distname) |->
        CASE distname[i] = "D" -> "d"
          [] distname[i] \in {"-", "_", "."} -> "_"
          [] distname[i] = ".whl" -> "_whl"
          [] OTHER -> distname[i]]

\* the prefix _distinfo_path computes from distname and version (both read-only)
\* when it is first called on a session opened for writing
DistinfoPrefix(distname, version) == CanonicalizeName(distname) \o <<"-">> \o version

\* WheelFile._find_distinfo_prefix: the outcome and the prefix
FindDistinfoPrefix(z) ==
    LET heads == {SplitHead(z.entries[i].filename, "/") : i \in 1..Len(z.entries)}
        candidates == {name \in heads : EndsWith(name, <<".dist-info">>)}
    IN  IF Cardinality(candidates) # 1 THEN [exc |-> "BadWheelFileError"]
        ELSE [exc |-> "none",
              val |-> LET name == CHOOSE c \in candidates : TRUE
                      IN  SubSeq(name, 1, Len(name) - 1)]

\* WheelFile._read_distinfo: the sessions it may leave (w comes with the three
\* attributes at None)
ReadDistinfo(z, w) ==
    LET mpath == DistinfoPath(w, <<"METADATA">>, ".dist-info")
        wpath == DistinfoPath(w, <<"WHEEL">>, ".dist-info")
        rpath == DistinfoPath(w, <<"RECORD">>, ".dist-info")
        m == IF ZipHas(z, mpath) THEN MetaDataFromStr(ZipRead(z, mpath))
             ELSE [exc |-> "KeyError"]
        hs == IF ZipHas(z, wpath) THEN WheelDataFromStr(ZipRead(z, wpath))
              ELSE {[exc |-> "KeyError"]}
        r == IF ZipHas(z, rpath) THEN RecordFromStr(ZipRead(z, rpath))
             ELSE [exc |-> "KeyError"]
    IN  { [w EXCEPT !.metadata = IF m.exc = "none" /\ h.exc = "none" THEN Some(m.val)
                                 ELSE NoneVal,
                    !.wheeldata = IF h.exc = "none" THEN Some(h.val) ELSE w.wheeldata,
                    !.record = IF r.exc = "none" THEN Some(r.records) ELSE NoneVal] :
          h \in hs }

\* WheelFile.VALID_DISTNAME_CHARS, on the tokens of the model
ValidDistnameTokens == {"a", "b", "x", "y", "d", "e", "D", "_", ".", "1", "2", ".whl"}

\* WheelFile.filename
Filename(z, w) == IF IsNone(z.filename) THEN w.generated_filename ELSE z.filename.val

\* a validate that does not compare the build of WHEEL with the build tag
ValidateNoBuild(z, w) ==
    IF ~EndsWith(Filename(z, w), <<".whl">>) THEN "ValueError"
    ELSE IF w.distname = <<>> THEN "ValueError"
    ELSE IF \E i \in 1..Len(w.distname) : w.distname[i] \notin ValidDistnameTokens
    THEN "ValueError"
    ELSE IF IsNone(w.metadata) \/ IsNone(w.wheeldata) \/ IsNone(w.record) THEN "ValueError"
    ELSE "none"

\* WheelFile.validate: the exception it raises, or "none"
Validate(z, w) ==
    IF ~EndsWith(Filename(z, w), <<".whl">>) THEN "ValueError"
    ELSE IF w.distname = <<>> THEN "ValueError"
    ELSE IF \E i \in 1..Len(w.distname) : w.distname[i] \notin ValidDistnameTokens
    THEN "ValueError"
    ELSE IF IsNone(w.metadata) \/ IsNone(w.wheeldata) \/ IsNone(w.record) THEN "ValueError"
    ELSE IF w.wheeldata.val.build # w.build_tag THEN "ValueError"
    ELSE "none"

\* the storage a target names: the buffer itself, or the file at the path (for a
\* directory, the file of the generated name in it)
StorageKey(t, generated_filename) ==
    IF t.kind = "buffer" THEN <<t.id>>
    ELSE IF t.kind = "path" THEN NormArcname(PathJoin(t.path, generated_filename))
    ELSE NormArcname(t.path)

\* the contents of every buffer and file: storage key -> entries of the archive in it
EmptyStore == [key \in {} |-> <<>>]

StorePut(store, key, entries) == (key :> entries) @@ store

\* zipfile.ZipFile(file, mode): 'r' reads what the storage holds, 'x' refuses an
\* existing file, 'w' and 'x' start a new archive in place of what was there
ZipOpen(t, key, mode, store) ==
    LET z == [entries |-> <<>>, fp |-> TRUE, mode |-> mode, target |-> t, key |-> key,
              filename |-> IF t.kind = "buffer" THEN NoneVal ELSE Some(key)]
    IN  IF mode = "r" /\ key \notin DOMAIN store
        THEN [exc |-> IF t.kind = "path" THEN "FileNotFoundError" ELSE "BadZipFile"]
        ELSE IF mode = "r"
        THEN [exc |-> "none", zip |-> [z EXCEPT !.entries = store[key]], store |-> store]
        ELSE IF mode = "x" /\ t.kind = "path" /\ key \in DOMAIN store
        THEN [exc |-> "FileExistsError"]
        ELSE [exc |-> "none", zip |-> z, store |-> StorePut(store, key, <<>>)]

\* WheelFile.__del__ on a session that is dropped open: close() runs, and what it
\* writes reaches the storage
Finalized(z, w, store) ==
    IF ReadMode(w.mode) THEN store ELSE StorePut(store, z.key, Close(z, w).zip.entries)

\* WheelFile._initialize_distinfo: the sessions it may leave
InitializeDistinfo(w) ==
    { [w EXCEPT !.metadata = Some(NewMetaData(w.distname, w.version)),
                !.wheeldata = Some(wheeldata),
                !.record = Some(EmptyRecord)] :
        wheeldata \in NewWheelData(DefaultGenerator, TRUE,
                                   <<Join(<<w.language_tag, w.abi_tag, w.platform_tag>>, "-")>>,
                                   w.build_tag) }

\* WheelFile.__init__ from the opening of the archive on: the outcomes
OpenSession(t, mode, w, store) ==
    LET opened == ZipOpen(t, StorageKey(t, w.generated_filename),
                          IF ReadMode(mode) THEN "r" ELSE IF mode = "wl" THEN "w" ELSE mode,
                          store)
        prefix == FindDistinfoPrefix(opened.zip)
        sessions == IF ~ReadMode(mode) THEN InitializeDistinfo(w)
                    ELSE ReadDistinfo(opened.zip, [w EXCEPT !.prefix = prefix.val])
    IN  IF opened.exc # "none" THEN {[exc |-> opened.exc, store |-> store]}
        ELSE IF ReadMode(mode) /\ prefix.exc # "none"
        THEN {[exc |-> prefix.exc, store |-> opened.store]}
        ELSE { IF Lazy(mode) \/ Validate(opened.zip, s) = "none"
               THEN [exc |-> "none", wf |-> s, zip |-> opened.zip, store |-> opened.store]
               ELSE [exc |-> Validate(opened.zip, s),
                     store |-> Finalized(opened.zip, s, opened.store)] :
               s \in sessions }

\* WheelFile.__init__: the outcomes, each with the session and its archive when it
\* returns, and with the storage after it
WheelFileInit(t, mode, args, store) ==
    LET filename == GetFilename(t)
        distname == PickDistname(filename, args.distname)
        version == PickVersion(filename, args.version)
        tags == PickTags(filename, args.build_tag, args.language_tag, args.abi_tag,
                         args.platform_tag)
    IN  IF IsUnnamedOrDirectory(t) /\ (IsNone(args.distname) \/ IsNone(args.version))
        THEN {[exc |-> "UnnamedDistributionError", store |-> store]}
        ELSE IF distname.exc # "none" THEN {[exc |-> distname.exc, store |-> store]}
        ELSE IF version.exc # "none" THEN {[exc |-> version.exc, store |-> store]}
        ELSE OpenSession(t, mode,
                         [mode |-> mode,
                          distname |-> distname.val,
                          version |-> version.val,
                          build_tag |-> tags.build_tag,
                          language_tag |-> tags.language_tag,
                          abi_tag |-> tags.abi_tag,
                          platform_tag |-> tags.platform_tag,
                          generated_filename |->
                              IF IsUnnamedOrDirectory(t)
                              THEN GenerateFilename(distname.val, version.val, tags.build_tag,
                                                    tags.language_tag, tags.abi_tag,
                                                    tags.platform_tag)
                              ELSE <<>>,
                          prefix |-> DistinfoPrefix(distname.val, version.val),
                          metadata |-> NoneVal,
                          wheeldata |-> NoneVal,
                          record |-> NoneVal],
                         store)

\* ------------------------------------------------------------ from_wheelfile

\* the _unspecified sentinel of from_wheelfile
Unspecified == [unspecified |-> TRUE]

\* an argument of from_wheelfile, or the value of wf when it is not given
GivenOrFrom(given, value) == IF given = Unspecified THEN value ELSE given

\* Path.parent of a path to a file
Parent(path) ==
    LET parts == DropEmpty(Split(path, "/")) IN Join(SubSeq(parts, 1, Len(parts) - 1), "/")

\* WheelFile.infolist: the entries other than METADATA, WHEEL and RECORD
RECURSIVE InfoList(_, _)
InfoList(entries, w) ==
    IF entries = <<>> THEN <<>>
    ELSE (IF Head(entries).filename
                \in {DistinfoPath(w, n, ".dist-info") : n \in MetadataFilenames}
          THEN <<>> ELSE <<Head(entries)>>)
         \o InfoList(Tail(entries), w)

\* a faulty loop that copies every entry under the name it has in wf, the entries
\* of the dist-info and data directories too; CloneCopiesEntries must tell it from
\* CopyEntries
RECURSIVE CopyEntriesUnrenamed(_, _, _, _, _)
CopyEntriesUnrenamed(to_copy, read_exc, wf_, z, w) ==
    IF to_copy = <<>> THEN Result("none", z, w)
    ELSE IF read_exc # "none" THEN Result(read_exc, z, w)
    ELSE The({ IF r.exc # "none" THEN r
               ELSE CopyEntriesUnrenamed(Tail(to_copy), read_exc, wf_, r.zip, r.wf) :
               r \in {WriteStr(z, w, ArcZipInfo(Head(to_copy).filename, Head(to_copy).attrs),
                                Head(to_copy).data)} })

\* the loop of from_wheelfile over wf.infolist(): read_exc is what reading an entry
\* of wf raises ("none" when it can be read)
RECURSIVE CopyEntries(_, _, _, _, _)
CopyEntries(to_copy, read_exc, wf_, z, w) ==
    IF to_copy = <<>> THEN Result("none", z, w)
    ELSE IF read_exc # "none" THEN Result(read_exc, z, w)
    ELSE LET zinfo == Head(to_copy)
             arcname_head == SplitHead(zinfo.filename, "/")
             arcname_tail == SplitTail(zinfo.filename, "/")
             target == IF arcname_head = DistinfoDirname(wf_)
                       THEN ArcStr(DistinfoDirname(w) \o <<"/">> \o arcname_tail)
                       ELSE IF arcname_head = DataDirname(wf_)
                       THEN ArcStr(DataDirname(w) \o <<"/">> \o arcname_tail)
                       ELSE ArcZipInfo(zinfo.filename, zinfo.attrs)
         IN  The({ IF r.exc # "none" THEN r
                   ELSE CopyEntries(Tail(to_copy), read_exc, wf_, r.zip, r.wf) :
                   r \in {WriteStr(z, w, target, zinfo.data)} })

\* from_wheelfile after new_wf is constructed: the metadata and wheeldata of wf
\* are carried over and the entries copied; an exception drops new_wf
CloneInto(src, new, store) ==
    LET wf_ == src.wf
        copied == MetaDataFromStr(MetaDataStr(wf_.metadata.val))
        with_metadata ==
            IF IsNone(wf_.metadata) THEN new.wf
            ELSE [new.wf EXCEPT !.metadata =
                     Some([copied.val EXCEPT !.name = new.wf.distname,
                                             !.version = new.wf.version])]
        with_wheeldata ==
            IF IsNone(wf_.wheeldata) THEN with_metadata
            ELSE [with_metadata EXCEPT !.wheeldata.val.root_is_purelib =
                                           wf_.wheeldata.val.root_is_purelib]
        read_exc == IF Closed(src.zip) THEN "ValueError"
                    ELSE IF src.zip.key = new.zip.key THEN "BadZipFile"
                    ELSE "none"
    IN  IF ~IsNone(wf_.metadata) /\ copied.exc # "none"
        THEN [exc |-> copied.exc, new |-> NoneVal,
              store |-> Finalized(new.zip, new.wf, store)]
        ELSE The({ IF r.exc # "none"
                   THEN [exc |-> r.exc, new |-> NoneVal,
                         store |-> Finalized(r.zip, r.wf, store)]
                   ELSE [exc |-> "none", new |-> Some([wf |-> r.wf, zip |-> r.zip]),
                         store |-> store] :
                   r \in { CopyEntries(InfoList(src.zip.entries, wf_), read_exc, wf_,
                                        new.zip, w) : w \in {with_wheeldata} } })

\* WheelFile.from_wheelfile: the outcomes, each with the new session when it
\* returns, and with the storage after it
FromWheelfile(src, t, mode, given, store) ==
    LET wf_ == src.wf
        args == IdentityArgs(GivenOrFrom(given.distname, Some(wf_.distname)),
                             GivenOrFrom(given.version, Some(wf_.version)),
                             GivenOrFrom(given.build_tag, wf_.build_tag),
                             GivenOrFrom(given.language_tag, Some(wf_.language_tag)),
                             GivenOrFrom(given.abi_tag, Some(wf_.abi_tag)),
                             GivenOrFrom(given.platform_tag, Some(wf_.platform_tag)))
        same_object == /\ t.kind # "path"
                       /\ src.zip.fp
                       /\ src.zip.target.kind = t.kind
                       /\ src.zip.target.id = t.id
        dir_path == IF NormArcname(t.path) \in FsDirs THEN NormArcname(t.path)
                    ELSE Parent(t.path)
        same_identity == /\ Some(wf_.distname) = args.distname
                         /\ Some(wf_.version) = args.version
                         /\ wf_.build_tag = args.build_tag
                         /\ Some(wf_.language_tag) = args.language_tag
                         /\ Some(wf_.abi_tag) = args.abi_tag
                         /\ Some(wf_.platform_tag) = args.platform_tag
    IN  IF ReadMode(mode) THEN {[exc |-> "ValueError", new |-> NoneVal, store |-> store]}
        ELSE IF ~IsNone(args.version) /\ args.version.val \notin ValidVersions
        THEN {[exc |-> "InvalidVersion", new |-> NoneVal, store |-> store]}
        ELSE IF same_object THEN {[exc |-> "ValueError", new |-> NoneVal, store |-> store]}
        ELSE IF /\ ~IsNone(src.zip.filename)
                /\ t.kind = "path"
                /\ Parent(src.zip.filename.val) = dir_path
                /\ same_identity
        THEN {[exc |-> "ValueError", new |-> NoneVal, store |-> store]}
        ELSE { IF new.exc # "none" THEN [exc |-> new.exc, new |-> NoneVal, store |-> new.store]
               ELSE CloneInto(src, new, new.store) :
               new \in WheelFileInit(t, mode, args, store) }

\* ------------------------------------------------- the write-mode session

Idle == [op |-> "idle"]

\* the identity of the session under test: distname "d", version "1", no build
\* tag, and the default tags
SessionArgs == IdentityArgs(Some(<<"d">>), Some(<<"1">>), NoneVal, NoneVal, NoneVal, NoneVal)

SessionPrefix == <<"d", "-", "1">>

SessionTag == <<"py3", "-", "none", "-", "any">>

\* WheelFile(buf, mode, distname="d", version="1") on a fresh buffer
Init ==
    /\ \E mode \in {"w", "x"} :
        \E s \in WheelFileInit(Target("buffer", "B1", <<>>), mode, SessionArgs, EmptyStore) :
            /\ zip = s.zip
            /\ wf = s.wf
    /\ last = [op |-> "init", args |-> <<>>, exc |-> "none",
               pre |-> [zip |-> zip, wf |-> wf], allok |-> TRUE]
    /\ calls = 0
    /\ pure = Idle
    /\ rd = Idle
    /\ cl = Idle
    /\ ct = Idle
    /\ rc = Idle
    /\ bd = Idle

\* the record of a call: its name and arguments, how it ended, the state before it
\* and whether every call so far has returned normally
Called(op, args, r) ==
    [op |-> op, args |-> args, exc |-> r.exc, pre |-> [zip |-> zip, wf |-> wf],
     allok |-> last.allok /\ r.exc = "none"]

Finish(op, args, r) ==
    /\ zip' = r.zip
    /\ wf' = r.wf
    /\ last' = Called(op, args, r)
    /\ UNCHANGED <<pure, rd, cl, ct, rc, bd>>

CustomAttrs == "custom"

\* the arguments of writestr: names, a directory name, a ZipInfo object, and
\* paths that end in .dist-info/RECORD
WriteStrArgs ==
    { [name |-> ArcStr(<<"a">>), data |-> <<"x">>],
      [name |-> ArcStr(<<"a">>), data |-> <<"y", "x">>],
      [name |-> ArcStr(<<"pkg", "/", "a">>), data |-> <<"x">>],
      [name |-> ArcStr(<<"sub", "/">>), data |-> <<>>],
      [name |-> ArcZipInfo(<<"b">>, CustomAttrs), data |-> <<"x">>],
      [name |-> ArcStr(SessionPrefix \o <<".dist-info", "/", "RECORD">>), data |-> <<"x">>],
      [name |-> ArcStr(<<"sub", "/", ".dist-info", "/", "RECORD">>), data |-> <<"x">>] }

DoWriteStr ==
    /\ calls < MaxCalls
    /\ \E a \in WriteStrArgs :
        Finish("writestr", [name |-> a.name.filename, given |-> a.name], WriteStr(zip, wf, a.name, a.data))
    /\ calls' = calls + 1

WriteStrDataArgs ==
    { [section |-> <<"purelib">>, name |-> ArcStr(<<"/", "a">>)],
      [section |-> <<"purelib">>, name |-> ArcZipInfo(<<"b">>, CustomAttrs)],
      [section |-> <<>>, name |-> ArcStr(<<"a">>)],
      [section |-> <<"purelib", "/", "sub">>, name |-> ArcStr(<<"a">>)] }

DoWriteStrData ==
    /\ calls < MaxCalls
    /\ \E a \in WriteStrDataArgs :
        Finish("writestr_data",
               [name |-> a.name.filename, section |-> a.section, given |-> a.name],
               WriteStrData(zip, wf, a.section, a.name, <<"x">>))
    /\ calls' = calls + 1

\* the target names of writestr_distinfo and write_distinfo
DistinfoNames ==
    { <<>>, <<"notes">>, <<"METADATA">>, <<"WHEEL">>, <<"RECORD">>,
      <<"/", "METADATA">>, <<"/", "RECORD">>, <<"METADATA", "/", "x">>, <<"WHEEL", "/">> }

DoWriteStrDistinfo ==
    /\ calls < MaxCalls
    /\ \E name \in DistinfoNames, iszinfo \in BOOLEAN :
        /\ iszinfo => name = <<"notes">>
        /\ \E given \in {IF iszinfo THEN ArcZipInfo(name, CustomAttrs) ELSE ArcStr(name)} :
            Finish("writestr_distinfo", [name |-> name, given |-> given],
                   WriteStrDistinfo(zip, wf, given, <<"y">>))
    /\ calls' = calls + 1

WriteArgs ==
    { [filename |-> <<"x">>, arcname |-> NoneVal, recursive |-> TRUE, skipdir |-> TRUE],
      [filename |-> <<"x">>, arcname |-> Some(<<"/", "a">>), recursive |-> TRUE, skipdir |-> TRUE],
      [filename |-> <<"pkg">>, arcname |-> NoneVal, recursive |-> TRUE, skipdir |-> TRUE],
      [filename |-> <<"pkg">>, arcname |-> NoneVal, recursive |-> TRUE, skipdir |-> FALSE],
      [filename |-> <<"pkg">>, arcname |-> Some(<<"sub">>), recursive |-> FALSE, skipdir |-> FALSE],
      [filename |-> <<"dir1">>, arcname |-> NoneVal, recursive |-> TRUE, skipdir |-> TRUE],
      [filename |-> <<"y">>, arcname |-> NoneVal, recursive |-> TRUE, skipdir |-> TRUE] }

DoWrite ==
    /\ calls < MaxCalls
    /\ \E a \in WriteArgs, resolve \in BOOLEAN, listing \in Listings :
        /\ ~resolve => a.filename = <<"pkg">> /\ a.recursive /\ a.skipdir
        /\ Finish("write", [name |-> a.arcname, filename |-> a.filename],
                  Write(zip, wf, a.filename, a.arcname, a.recursive, resolve, a.skipdir,
                        listing))
    /\ calls' = calls + 1

WriteDataArgs ==
    { [filename |-> <<"x">>, section |-> <<"purelib">>, arcname |-> NoneVal],
      [filename |-> <<"pkg">>, section |-> <<"purelib">>, arcname |-> Some(<<"/", "b">>)],
      [filename |-> <<"x">>, section |-> <<>>, arcname |-> NoneVal] }

DoWriteData ==
    /\ calls < MaxCalls
    /\ \E a \in WriteDataArgs, listing \in Listings :
        Finish("write_data", [name |-> a.arcname, filename |-> a.filename],
               WriteData(zip, wf, a.filename, a.section, a.arcname, TRUE, TRUE, TRUE, listing))
    /\ calls' = calls + 1

\* the arcname arguments of write_distinfo
WriteDistinfoNames ==
    { <<>>, <<"notes">>, <<"METADATA">>, <<"/", "METADATA">>, <<"METADATA", "/", "x">> }

DoWriteDistinfo ==
    /\ calls < MaxCalls
    /\ \E filename \in {<<"x">>, <<"METADATA">>, <<"pkg">>},
          arcname \in {NoneVal} \cup {Some(n) : n \in WriteDistinfoNames},
          listing \in Listings :
        /\ filename # <<"x">> => IsNone(arcname)
        /\ Finish("write_distinfo",
                  [name |-> IF IsNone(arcname) THEN Resolved(filename) ELSE arcname.val,
                   filename |-> filename],
                  WriteDistinfo(zip, wf, filename, arcname, TRUE, TRUE, TRUE, listing))
    /\ calls' = calls + 1

DoClose ==
    /\ Finish("close", <<>>, Close(zip, wf))
    /\ UNCHANGED calls

\* the assignments wf.metadata = None, wf.wheeldata = None and wf.record = None
SetMetadataNone ==
    /\ calls < MaxCalls
    /\ ~IsNone(wf.metadata)
    /\ Finish("set_metadata", <<>>, Result("none", zip, [wf EXCEPT !.metadata = NoneVal]))
    /\ calls' = calls + 1

SetWheeldataNone ==
    /\ calls < MaxCalls
    /\ ~IsNone(wf.wheeldata)
    /\ Finish("set_wheeldata", <<>>, Result("none", zip, [wf EXCEPT !.wheeldata = NoneVal]))
    /\ calls' = calls + 1

SetRecordNone ==
    /\ calls < MaxCalls
    /\ ~IsNone(wf.record)
    /\ Finish("set_record", <<>>, Result("none", zip, [wf EXCEPT !.record = NoneVal]))
    /\ calls' = calls + 1

Next ==
    \/ DoWriteStr
    \/ DoWriteStrData
    \/ DoWriteStrDistinfo
    \/ DoWrite
    \/ DoWriteData
    \/ DoWriteDistinfo
    \/ DoClose
    \/ SetMetadataNone
    \/ SetWheeldataNone
    \/ SetRecordNone

Spec == Init /\ [][Next]_vars

\* ------------------------------------------- properties of the write session

WriteOps ==
    {"write", "writestr", "write_data", "writestr_data", "write_distinfo", "writestr_distinfo"}

\* C1: in an open write-mode session whose record is present, when every call so
\* far has returned normally, each archive path that does not end in '/' has a
\* record entry with the hash and size of the bytes written last under the path,
\* and no path ending in '/' has a record entry.
RecordSynchronized ==
    (last.allok /\ ~Closed(zip) /\ ~IsNone(wf.record)) =>
        /\ \A i \in 1..Len(zip.entries) :
            LET name == zip.entries[i].filename
            IN  IF EndsWith(name, <<"/">>) THEN ~RecordHas(wf.record.val, name)
                ELSE /\ RecordHas(wf.record.val, name)
                     /\ RecordGet(wf.record.val, name) = RecordEntry(name, ZipRead(zip, name))
        /\ \A i \in 1..Len(wf.record.val) : ~EndsWith(wf.record.val[i].path, <<"/">>)

\* C1 witness: after successful writes the archive holds a directory entry and a
\* path written twice with different bytes, and the record is present
RecordSynchronizedWitness ==
    /\ last.allok /\ ~Closed(zip) /\ ~IsNone(wf.record)
    /\ last.op \in WriteOps
    /\ \E i \in 1..Len(zip.entries) : EndsWith(zip.entries[i].filename, <<"/">>)
    /\ \E i, j \in 1..Len(zip.entries) :
        /\ i < j
        /\ zip.entries[i].filename = zip.entries[j].filename
        /\ zip.entries[i].data # zip.entries[j].data

\* the entries a call appended to the archive
Appended == SubSeq(zip.entries, Len(last.pre.zip.entries) + 1, Len(zip.entries))

\* the names close() is to write, in order, for the session it was called on
CloseNames(w) ==
    (IF IsNone(w.metadata) THEN <<>> ELSE <<DistinfoPath(w, <<"METADATA">>, ".dist-info")>>)
    \o (IF IsNone(w.wheeldata) THEN <<>> ELSE <<DistinfoPath(w, <<"WHEEL">>, ".dist-info")>>)
    \o <<DistinfoPath(w, <<"RECORD">>, ".dist-info")>>

\* C2: close() of an open session in a non-read mode appends METADATA (if the
\* metadata is present), WHEEL (if the wheeldata is present) and RECORD, in this
\* order and RECORD last, also when the record is absent; the RECORD text holds an
\* entry for each of the METADATA and WHEEL files just written and none for RECORD;
\* the session is closed afterwards.
CloseWritesDistinfo ==
    (last.op = "close" /\ ~Closed(last.pre.zip) /\ last.pre.wf.mode # "r") =>
        LET w == last.pre.wf
            names == CloseNames(w)
            written == RecordFromStr(Last(Appended).data)
        IN  /\ last.exc = "none"
            /\ [i \in 1..Len(Appended) |-> Appended[i].filename] = names
            /\ written.exc = "none"
            /\ \A i \in 1..(Len(names) - 1) :
                /\ RecordHas(written.records, names[i])
                /\ RecordGet(written.records, names[i])
                     = RecordEntry(names[i], Appended[i].data)
            /\ ~RecordHas(written.records, Last(names))
            /\ Closed(zip)

\* C2 witness: close() was called on an open session whose record is absent and
\* whose metadata and wheeldata are present
CloseWithoutRecord ==
    /\ last.op = "close" /\ ~Closed(last.pre.zip)
    /\ IsNone(last.pre.wf.record)
    /\ ~IsNone(last.pre.wf.metadata) /\ ~IsNone(last.pre.wf.wheeldata)
    /\ Len(last.pre.zip.entries) > 0

\* a target name that designates METADATA, WHEEL or RECORD in the dist-info
\* directory: the name, the name past its leading slashes, or a path below one
Reserved(name) ==
    LET stripped == LStrip(name, "/")
    IN  stripped \in MetadataFilenames \/ SplitHead(stripped, "/") \in MetadataFilenames

\* C3: every call of write_distinfo or writestr_distinfo with an empty target name
\* or one that designates METADATA, WHEEL or RECORD raises ProhibitedWriteError.
DistinfoWritesProhibited ==
    (last.op \in {"write_distinfo", "writestr_distinfo"}
     /\ (last.args.name = <<>> \/ Reserved(last.args.name)))
        => last.exc = "ProhibitedWriteError"

\* C3 witness: writestr_distinfo was called with a reserved name behind a slash
SlashedReservedName ==
    /\ last.op = "writestr_distinfo"
    /\ last.args.name = <<"/", "METADATA">>
    /\ ~Closed(last.pre.zip)

\* C7: close() on a closed session raises nothing, writes no entry, leaves
\* metadata, wheeldata and record as they were, and the session stays closed.
CloseOnClosedIsNoop ==
    (last.op = "close" /\ Closed(last.pre.zip)) =>
        /\ last.exc = "none"
        /\ zip.entries = last.pre.zip.entries
        /\ wf = last.pre.wf
        /\ Closed(zip)

\* C7 witness: close() was called on a session that an earlier close() had closed
\* after writing the three files
ClosedTwice ==
    /\ last.op = "close" /\ Closed(last.pre.zip)
    /\ Len(last.pre.zip.entries) >= 3
    /\ ~IsNone(wf.metadata) /\ ~IsNone(wf.wheeldata) /\ ~IsNone(wf.record)

\* ------------------------------------------ the (de)serialisation functions

\* the MetaData objects whose text is parsed back: name, version and a few
\* optional fields at None, empty and non-empty values, the other fields at
\* their defaults
MetaDataInputs ==
    { [NewMetaData(name, version) EXCEPT !.summary = summary, !.description = description,
                                         !.keywords = keywords, !.classifiers = classifiers,
                                         !.author = author] :
        name \in {<<"d">>, <<>>}, version \in {<<"1">>, <<"1.0">>},
        summary \in {PyNone, <<>>, <<"x">>}, description \in {PyNone, <<>>, <<"x">>},
        keywords \in {<<>>, << <<"a">> >>, << <<"a">>, <<"b">> >>, << <<"a", ",", "b">> >>},
        classifiers \in {<<>>, << <<"a">>, <<"b">> >>, << <<>> >>},
        author \in {PyNone, <<"x">>} }

\* the WheelData objects whose text is parsed back
WheelDataInputs ==
    UNION { NewWheelData(generator, root_is_purelib, tags, build) :
              generator \in {DefaultGenerator, <<"gen">>},
              root_is_purelib \in BOOLEAN,
              tags \in { <<SessionTag>>,
                         << <<"py2", ".", "py3", "-", "none", "-", "any">> >>,
                         << SessionTag, <<"cp3", "-", "none", "-", "any">> >> },
              build \in {NoneVal, Some(0), Some(1), Some(12)} }

\* the tags arguments of WheelData(): lists of simple and of compressed tags
TagsInputs ==
    { <<SessionTag>>,
      << <<"py2", ".", "py3", "-", "none", "-", "any">> >>,
      << <<"py2", ".", "py3", "-", "cp2", ".", "cp3", "-", "manylinux1">> >>,
      << <<"py2", ".", "py3", "-", "none", "-", "any">>,
         <<"py2", "-", "cp3", ".", "cp2", "-", "manylinux1">> >>,
      << <<"py2", "-", "none", "-", "any", ".", "manylinux1">>, SessionTag >> }

\* the values assigned to the attributes of a WheelData before str() is called
WheelDataAttrs ==
    { [generator |-> g, root_is_purelib |-> r, tags |-> t, build |-> b] :
        g \in { Py("str", <<"gen">>), Py("str", <<>>), Py("str", <<"gen", "\n", "a">>),
                Py("NoneType", <<"None">>), Py("int", <<"5">>) },
        r \in { Py("bool", TRUE), Py("bool", FALSE), Py("NoneType", FALSE), Py("int", TRUE) },
        t \in { Py("list", <<SessionTag>>),
                Py("list", << SessionTag, <<"cp3", "-", "none", "-", "any">> >>),
                Py("list", <<>>), Py("str", << <<"a">> >>), Py("NoneType", <<>>) },
        b \in { Py("NoneType", 0), Py("int", 1), Py("int", 12), Py("str", 1) } }

InitPure ==
    /\ zip = Idle /\ wf = Idle /\ last = Idle /\ calls = 0 /\ rd = Idle /\ cl = Idle
    /\ ct = Idle /\ rc = Idle /\ bd = Idle
    /\ \/ \E m \in MetaDataInputs : pure = [op |-> "MetaData", done |-> FALSE, arg |-> m]
       \/ \E w \in WheelDataInputs : pure = [op |-> "WheelData", done |-> FALSE, arg |-> w]
       \/ \E t \in TagsInputs : pure = [op |-> "tags", done |-> FALSE, arg |-> t]
       \/ \E a \in WheelDataAttrs : pure = [op |-> "str", done |-> FALSE, arg |-> a]

\* MetaData.from_str(str(m))
MetaDataRoundTrip ==
    /\ pure.op = "MetaData" /\ ~pure.done
    /\ pure' = [pure EXCEPT !.done = TRUE] @@ [out |-> MetaDataFromStr(MetaDataStr(pure.arg))]
    /\ UNCHANGED <<zip, wf, last, calls, rd, cl, ct, rc, bd>>

\* WheelData.from_str(str(w))
WheelDataRoundTrip ==
    /\ pure.op = "WheelData" /\ ~pure.done
    /\ WheelDataStrOk(pure.arg)
    /\ \E out \in WheelDataFromStr(WheelDataStr(pure.arg)) :
        pure' = [pure EXCEPT !.done = TRUE] @@ [out |-> out]
    /\ UNCHANGED <<zip, wf, last, calls, rd, cl, ct, rc, bd>>

\* WheelData(tags=t).tags
WheelDataTags ==
    /\ pure.op = "tags" /\ ~pure.done
    /\ \E out \in ExtendTags(pure.arg) :
        pure' = [pure EXCEPT !.done = TRUE] @@ [out |-> out]
    /\ UNCHANGED <<zip, wf, last, calls, rd, cl, ct, rc, bd>>

\* str(w)
WheelDataToStr ==
    /\ pure.op = "str" /\ ~pure.done
    /\ pure' = [pure EXCEPT !.done = TRUE] @@ [out |-> WheelDataStrOf(pure.arg)]
    /\ UNCHANGED <<zip, wf, last, calls, rd, cl, ct, rc, bd>>

NextPure ==
    \/ MetaDataRoundTrip
    \/ WheelDataRoundTrip
    \/ WheelDataTags
    \/ WheelDataToStr

SpecPure == InitPure /\ [][NextPure]_vars

\* C4: for every MetaData object m, MetaData.from_str(str(m)) returns an object
\* equal to m, the equality comparing every field and taking a None description
\* and an empty description as equal.
MetaDataFromStrInvertsStr ==
    (pure.op = "MetaData" /\ pure.done) =>
        /\ pure.out.exc = "none"
        /\ MetaDataEq(pure.out.val, pure.arg)

\* C4 witness: the text of a MetaData object with an empty summary was parsed back
EmptySummaryParsed ==
    /\ pure.op = "MetaData" /\ pure.done
    /\ pure.arg.summary = <<>>
    /\ pure.arg.name # <<>>
    /\ pure.arg.keywords = <<>>

\* C5: for every WheelData object w with a non-empty generator and a non-empty
\* list of tags, WheelData.from_str(str(w)) returns an object with the generator,
\* root_is_purelib, tags and build of w.
WheelDataFromStrInvertsStr ==
    (pure.op = "WheelData" /\ pure.done) =>
        /\ pure.out.exc = "none"
        /\ WheelDataEq(pure.out.val, pure.arg)

\* C5 witness: the text of a WheelData object that is not purelib was parsed back
ImpureWheelDataParsed ==
    /\ pure.op = "WheelData" /\ pure.done
    /\ ~pure.arg.root_is_purelib

\* ------------------------------------------------ opening an archive to read

\* the contents an archive may hold under METADATA, WHEEL and RECORD of its
\* dist-info directory: texts the models serialise to, and texts that do not parse
MetadataTexts ==
    { MetaDataStr(NewMetaData(<<"d">>, <<"1">>)),
      MetaDataStr([NewMetaData(<<"d">>, <<"1">>) EXCEPT !.summary = <<"x">>]),
      <<"not a valid file">>,
      HeaderLine("Name", <<"d">>) \o HeaderLine("gen", <<"x">>) }

WheelTexts ==
    { WheelDataStr(w) : w \in NewWheelData(DefaultGenerator, TRUE, <<SessionTag>>, NoneVal)
                               \cup NewWheelData(<<"gen">>, FALSE, <<SessionTag>>, Some(1)) }
    \cup { <<"not a valid file">>,
           HeaderLine("Wheel-Version", WheelVersion) \o HeaderLine("Build", <<"x">>) }

RecordTexts ==
    { <<>>,
      RecordRow(RecordEntry(<<"a">>, <<"x">>)),
      RecordRow(RecordEntry(<<"pkg", "/">>, <<>>)),
      <<"a", ",", "x", ",", "1", ",", "y", "\r\n">> }

\* an archive with one file and the given dist-info files (None: the file is absent)
Archive(metadata, wheel, record) ==
    LET Entry(name, text) ==
            IF IsNone(text) THEN <<>>
            ELSE <<[filename |-> SessionPrefix \o <<".dist-info", "/", name>>,
                    data |-> text.val, attrs |-> DefaultAttrs]>>
    IN  <<[filename |-> <<"a">>, data |-> <<"x">>, attrs |-> DefaultAttrs]>>
        \o Entry("METADATA", metadata) \o Entry("WHEEL", wheel) \o Entry("RECORD", record)

InitRead ==
    /\ zip = Idle /\ wf = Idle /\ last = Idle /\ calls = 0 /\ pure = Idle /\ cl = Idle
    /\ ct = Idle /\ rc = Idle /\ bd = Idle
    /\ \E metadata \in {NoneVal} \cup {Some(t) : t \in MetadataTexts},
          wheel \in {NoneVal} \cup {Some(t) : t \in WheelTexts},
          record \in {NoneVal} \cup {Some(t) : t \in RecordTexts},
          mode \in {"r", "rl"} :
        rd = [done |-> FALSE, mode |-> mode,
              store |-> StorePut(EmptyStore, <<"B1">>, Archive(metadata, wheel, record))]

\* WheelFile(buf, mode, distname="d", version="1") on a buffer that holds an archive
OpenRead ==
    /\ ~rd.done
    /\ \E s \in WheelFileInit(Target("buffer", "B1", <<>>), rd.mode, SessionArgs, rd.store) :
        rd' = [rd EXCEPT !.done = TRUE] @@ [out |-> s]
    /\ UNCHANGED <<zip, wf, last, calls, pure, cl, ct, rc, bd>>

NextRead == OpenRead

SpecRead == InitRead /\ [][NextRead]_vars

\* C6: when a session is opened in a read mode and exactly one of METADATA, WHEEL
\* and RECORD is missing or fails to parse, only the model of that file is None
\* and the other two models are the ones parsed from their files.
DistinfoReadIndependently ==
    (rd.done /\ rd.out.exc = "none") =>
        LET z == rd.out.zip
            w == rd.out.wf
            mpath == DistinfoPath(w, <<"METADATA">>, ".dist-info")
            wpath == DistinfoPath(w, <<"WHEEL">>, ".dist-info")
            rpath == DistinfoPath(w, <<"RECORD">>, ".dist-info")
            mbad == ~ZipHas(z, mpath) \/ MetaDataFromStr(ZipRead(z, mpath)).exc # "none"
            wbad == \/ ~ZipHas(z, wpath)
                    \/ \E h \in WheelDataFromStr(ZipRead(z, wpath)) : h.exc # "none"
            rbad == ~ZipHas(z, rpath) \/ RecordFromStr(ZipRead(z, rpath)).exc # "none"
        IN  Cardinality({i \in 1..3 : <<mbad, wbad, rbad>>[i]}) = 1 =>
                /\ IsNone(w.metadata) <=> mbad
                /\ IsNone(w.wheeldata) <=> wbad
                /\ IsNone(w.record) <=> rbad
                /\ ~mbad => w.metadata.val = MetaDataFromStr(ZipRead(z, mpath)).val
                /\ ~wbad => \E h \in WheelDataFromStr(ZipRead(z, wpath)) :
                                w.wheeldata.val = h.val
                /\ ~rbad => w.record.val = RecordFromStr(ZipRead(z, rpath)).records

\* C6 witness: a session was opened on an archive whose WHEEL does not parse and
\* whose METADATA and RECORD do
OpenedWithCorruptWheel ==
    /\ rd.done /\ rd.out.exc = "none"
    /\ ZipHas(rd.out.zip, SessionPrefix \o <<".dist-info", "/", "WHEEL">>)
    /\ ZipRead(rd.out.zip, SessionPrefix \o <<".dist-info", "/", "WHEEL">>)
        = <<"not a valid file">>
    /\ ZipHas(rd.out.zip, SessionPrefix \o <<".dist-info", "/", "METADATA">>)
    /\ MetaDataFromStr(ZipRead(rd.out.zip,
                               SessionPrefix \o <<".dist-info", "/", "METADATA">>)).exc = "none"
    /\ ~IsNone(rd.out.wf.record)

\* ------------------------------------------------------- cloning a session

SourcePath == <<"dir1", "/", "d", "-", "1", "-", "py3", "-", "none", "-", "any", ".whl">>

\* what the source session was opened on
SourceTargets ==
    { Target("buffer", "B1", <<>>), Target("path", "", SourcePath),
      Target("fileobj", "F1", SourcePath) }

\* what the caller has assigned to the wheeldata object of the source session
\* before the call: nothing ("same"), its build, or its root_is_purelib
Tweaked(w, tweak) ==
    IF tweak = "build" THEN [w EXCEPT !.wheeldata.val.build = Some(5)]
    ELSE IF tweak = "impure" THEN [w EXCEPT !.wheeldata.val.root_is_purelib = FALSE]
    ELSE w

\* a source session opened for writing on target t, three entries written to it
\* (with writestr and a ZipInfo, with writestr_data, and with writestr and a ZipInfo
\* that names a file of the dist-info directory), its summary set and its wheeldata
\* tweaked, with the storage around it
SourcesWritten(t, summary, tweak) ==
    UNION { { [wf |-> Tweaked([c.wf EXCEPT !.metadata.val.summary = summary], tweak),
               zip |-> c.zip, store |-> s.store] :
              c \in { WriteStr(b.zip, b.wf,
                               ArcZipInfo(DistinfoPath(b.wf, <<"notes">>, ".dist-info"),
                                          CustomAttrs),
                               <<"x">>) :
                      b \in { WriteStrData(a.zip, a.wf, <<"purelib">>,
                                           ArcZipInfo(<<"b">>, CustomAttrs), <<"y">>) :
                              a \in {WriteStr(s.zip, s.wf, ArcZipInfo(<<"a">>, CustomAttrs),
                                               <<"x">>)} } } } :
            s \in {o \in WheelFileInit(t, "w", SessionArgs, EmptyStore) : o.exc = "none"} }

\* the same session after close(): the archive is in the storage
SourcesClosed(t, summary, tweak) ==
    UNION { { [wf |-> c.wf, zip |-> c.zip,
               store |-> StorePut(s.store, s.zip.key, c.zip.entries)] :
              c \in {Close(s.zip, s.wf)} } :
            s \in SourcesWritten(t, summary, tweak) }

\* a session that reads the archive the closed session left
SourcesRead(t, summary, tweak) ==
    UNION { { [wf |-> r.wf, zip |-> r.zip, store |-> r.store] :
              r \in {o \in WheelFileInit(t, "r", SessionArgs, s.store) : o.exc = "none"} } :
            s \in SourcesClosed(t, summary, tweak) }

\* the source session by its state: left open ("write"), closed ("closed"), or
\* closed and opened again to read ("read")
Sources(t, summary, tweak, state) ==
    IF state = "write" THEN SourcesWritten(t, summary, tweak)
    ELSE IF state = "closed" THEN SourcesClosed(t, summary, tweak)
    ELSE SourcesRead(t, summary, tweak)

\* the targets of from_wheelfile: the buffer and the file object of the source,
\* another buffer, the path of the source's file, other files, and directories
CloneTargets ==
    { Target("buffer", "B1", <<>>), Target("buffer", "B2", <<>>),
      Target("fileobj", "F1", SourcePath),
      Target("path", "", SourcePath),
      Target("path", "", <<"dir1", "/", "e", "-", "1", "-", "py3", "-", "none", "-", "any",
                           ".whl">>),
      Target("path", "", <<"dir2", "/", "d", "-", "1", "-", "7", "-", "cp3", "-", "none", "-",
                           "any", ".whl">>),
      Target("path", "", <<"dir1">>), Target("path", "", <<"dir2", "/">>) }

\* the identity arguments of from_wheelfile: not given, None, or a value
CloneArgs ==
    { IdentityArgs(distname, version, build_tag, language_tag, Unspecified, platform_tag) :
        distname \in {Unspecified, NoneVal, Some(<<"e">>)},
        version \in {Unspecified, Some(<<"2">>)},
        build_tag \in {Unspecified, NoneVal, Some(7)},
        language_tag \in {Unspecified, NoneVal, Some(<<"py2">>)},
        platform_tag \in {Unspecified, NoneVal} }

InitClone ==
    /\ zip = Idle /\ wf = Idle /\ last = Idle /\ calls = 0 /\ pure = Idle /\ rd = Idle
    /\ ct = Idle /\ rc = Idle /\ bd = Idle
    /\ \E st \in SourceTargets, summary \in {PyNone, <<>>, <<"x">>},
          tweak \in {"same", "build", "impure"}, state \in {"write", "closed", "read"} :
        /\ state # "write" => summary = PyNone
        /\ (state = "closed" \/ summary # PyNone) => tweak = "same"
        /\ \E src \in Sources(st, summary, tweak, state) :
            cl = [done |-> FALSE, src |-> [wf |-> src.wf, zip |-> src.zip],
                  store |-> src.store]

\* WheelFile.from_wheelfile(wf, target, mode, ...); a file object can be the target
\* only where the source was opened on it
DoFromWheelfile ==
    /\ ~cl.done
    /\ \E t \in CloneTargets, given \in CloneArgs, mode \in {"w", "r"} :
        /\ t.kind = "fileobj" => cl.src.zip.target.kind = "fileobj"
        /\ mode = "r" => \A f \in DOMAIN given : given[f] = Unspecified
        /\ \E out \in FromWheelfile(cl.src, t, mode, given, cl.store) :
            cl' = [done |-> TRUE, src |-> cl.src, store |-> cl.store,
                   target |-> t, mode |-> mode, given |-> given, out |-> out]
    /\ UNCHANGED <<zip, wf, last, calls, pure, rd, ct, rc, bd>>

NextClone == DoFromWheelfile

SpecClone == InitClone /\ [][NextClone]_vars

\* the identity from_wheelfile is to give the new session: the argument when one
\* is given, the value of the source when it is not, the default for a None
Expected(field) ==
    LET given == cl.given[field]
        default == [build_tag |-> NoneVal, language_tag |-> Some(<<"py3">>),
                    abi_tag |-> Some(<<"none">>), platform_tag |-> Some(<<"any">>)]
        of_source == IF field = "build_tag" THEN cl.src.wf[field] ELSE Some(cl.src.wf[field])
    IN  IF given = Unspecified THEN of_source
        ELSE IF IsNone(given) /\ field \in DOMAIN default THEN default[field]
        ELSE given

\* the exceptions that are ValueError or derive from it
ValueErrors ==
    {"ValueError", "UnsupportedHashTypeError", "RecordContainsDirectoryError",
     "BadWheelFileError", "UnnamedDistributionError", "ProhibitedWriteError",
     "InvalidVersion"}

\* the storage the target of the call names is the storage of the source session:
\* the same buffer, the same file object, or a path to the same file
TargetIsSource ==
    LET t == cl.target
        s == cl.src.zip.target
    IN  \/ t.kind # "path" /\ s.kind = t.kind /\ s.id = t.id
        \/ /\ t.kind = "path" /\ s.kind # "buffer"
           /\ IF NormArcname(t.path) \notin FsDirs THEN NormArcname(t.path) = cl.src.zip.key
              ELSE /\ ~IsNone(Expected("distname")) /\ ~IsNone(Expected("version"))
                   /\ StorageKey(t, GenerateFilename(Expected("distname").val,
                                                     Expected("version").val,
                                                     Expected("build_tag"),
                                                     Expected("language_tag").val,
                                                     Expected("abi_tag").val,
                                                     Expected("platform_tag").val))
                        = cl.src.zip.key

\* C8: from_wheelfile raises ValueError, with nothing written to the target,
\* whenever the target is the buffer, the file object or the file of the source.
CloneRefusesSourceStorage ==
    (cl.done /\ TargetIsSource) =>
        /\ cl.out.exc \in ValueErrors
        /\ IsNone(cl.out.new)
        /\ cl.out.store = cl.store

\* C8 witness: the source was opened on a path and the call was given the same
\* path together with another distname
ClonedOntoSourcePath ==
    /\ cl.done /\ TargetIsSource
    /\ cl.src.zip.target.kind = "path" /\ cl.target.path = SourcePath
    /\ cl.given.distname = Some(<<"e">>)
    /\ cl.src.wf.mode = "r"

\* C9: each of distname, version, build_tag, language_tag, abi_tag and
\* platform_tag of the session from_wheelfile returns is the argument when one is
\* given, the value of the source when the argument is omitted, and for a None the
\* default (py3, none, any; no build tag); for an unnamed target the filename is
\* the one generated from these six values.
CloneIdentity ==
    (cl.done /\ cl.out.exc = "none") =>
        LET new == cl.out.new.val.wf
        IN  /\ \A field \in {"distname", "version", "language_tag", "abi_tag", "platform_tag"} :
                (cl.given[field] # NoneVal \/ field \notin {"distname", "version"})
                    => Some(new[field]) = Expected(field)
            /\ new.build_tag = Expected("build_tag")
            /\ cl.target.kind = "buffer" =>
                Filename(cl.out.new.val.zip, new)
                    = GenerateFilename(Expected("distname").val, Expected("version").val,
                                       Expected("build_tag"), Expected("language_tag").val,
                                       Expected("abi_tag").val, Expected("platform_tag").val)

\* C9 witness: from_wheelfile returned a session for a file whose name carries a
\* build tag, with no build_tag argument and a source that has no build tag
ClonedToNameWithBuild ==
    /\ cl.done /\ cl.out.exc = "none"
    /\ cl.given.build_tag = Unspecified
    /\ IsNone(cl.src.wf.build_tag)
    /\ cl.target.kind = "path"
    /\ Len(Split(Resolved(cl.target.path), "-")) = 6

\* C10: after from_wheelfile from a source with metadata, the name and version
\* of the new metadata are the new distname and version, every other field is
\* equal to the field of the source (a None and an empty description being
\* equal), and the metadata of the source is as it was.
CloneKeepsMetadata ==
    (cl.done /\ cl.out.exc = "none" /\ ~IsNone(cl.src.wf.metadata)) =>
        LET new == cl.out.new.val.wf
            old == cl.src.wf.metadata.val
        IN  /\ ~IsNone(new.metadata)
            /\ new.metadata.val.name = new.distname
            /\ new.metadata.val.version = new.version
            /\ MetaDataEq([new.metadata.val EXCEPT !.name = old.name, !.version = old.version],
                          old)

\* C10 witness: from_wheelfile returned a session cloned from a source whose
\* metadata has an empty summary
ClonedEmptySummary ==
    /\ cl.done /\ cl.out.exc = "none"
    /\ ~IsNone(cl.src.wf.metadata)
    /\ cl.src.wf.metadata.val.summary = <<>>
    /\ cl.given.distname = Some(<<"e">>)

\* C11: after from_wheelfile from a source whose wheeldata is present, the new
\* wheeldata has the root_is_purelib of the source's wheeldata; its build is the
\* build_tag argument when one is given and otherwise the build of the source's
\* wheeldata; its tags are those of the language, abi and platform arguments when
\* any is given and otherwise the tags of the source's wheeldata.
CloneWheelData ==
    (cl.done /\ cl.out.exc = "none" /\ ~IsNone(cl.src.wf.wheeldata)) =>
        LET new == cl.out.new.val.wf.wheeldata
            old == cl.src.wf.wheeldata.val
            tag_args == {cl.given.language_tag, cl.given.abi_tag, cl.given.platform_tag}
        IN  /\ ~IsNone(new)
            /\ new.val.root_is_purelib = old.root_is_purelib
            /\ cl.given.build_tag = Unspecified => new.val.build = old.build
            /\ cl.given.build_tag \notin {Unspecified, NoneVal}
                => new.val.build = cl.given.build_tag
            /\ tag_args = {Unspecified} => new.val.tags = old.tags
            /\ (tag_args # {Unspecified} /\ NoneVal \notin tag_args)
                => new.val.tags = << Join(<<Expected("language_tag").val,
                                            Expected("abi_tag").val,
                                            Expected("platform_tag").val>>, "-") >>

\* C11 witness: from_wheelfile returned a session cloned, with no build_tag
\* argument, from a source whose wheeldata was given a build of its own
ClonedChangedBuild ==
    /\ cl.done /\ cl.out.exc = "none"
    /\ ~IsNone(cl.src.wf.wheeldata)
    /\ cl.src.wf.wheeldata.val.build # cl.src.wf.build_tag
    /\ cl.given.build_tag = Unspecified
    /\ cl.target.kind = "buffer"

\* the entries of the source that are not its METADATA, WHEEL or RECORD
SourceEntries ==
    LET w == cl.src.wf
        Kept(e) == e.filename \notin { w.prefix \o <<".dist-info", "/", n>> :
                                       n \in {"METADATA", "WHEEL", "RECORD"} }
    IN  SelectSeq(cl.src.zip.entries, Kept)

\* the name under which an entry of the source is to be found in the new session
Renamed(name) ==
    LET old == cl.src.wf.prefix
        new == cl.out.new.val.wf.prefix
        top(dir) == Len(name) > Len(dir) /\ SubSeq(name, 1, Len(dir) + 1) = dir \o <<"/">>
        under(dir) == SubSeq(name, Len(old) + 2, Len(name))
    IN  IF top(old \o <<".dist-info">>) THEN new \o <<".dist-info">> \o under(old)
        ELSE IF top(old \o <<".data">>) THEN new \o <<".data">> \o under(old)
        ELSE name

\* C12: after from_wheelfile the entries of the new session are the entries of the
\* source other than METADATA, WHEEL and RECORD, in the same order and with the
\* same bytes, those under the dist-info or data directory of the source renamed
\* to the dist-info or data directory of the new session.
CloneCopiesEntries ==
    (cl.done /\ cl.out.exc = "none") =>
        LET copied == cl.out.new.val.zip.entries
        IN  /\ Len(copied) = Len(SourceEntries)
            /\ \A i \in 1..Len(copied) :
                /\ copied[i].filename = Renamed(SourceEntries[i].filename)
                /\ copied[i].data = SourceEntries[i].data

\* C12 witness: from_wheelfile with another distname returned a session cloned
\* from a source that was read from an archive holding METADATA, WHEEL and RECORD
ClonedRenamedFromRead ==
    /\ cl.done /\ cl.out.exc = "none"
    /\ cl.src.wf.mode = "r"
    /\ Len(cl.src.zip.entries) > Len(SourceEntries)
    /\ cl.given.distname = Some(<<"e">>)
    /\ \E i \in 1..Len(SourceEntries) :
        Renamed(SourceEntries[i].filename) # SourceEntries[i].filename

\* C13: every entry from_wheelfile copies, those under the data and dist-info
\* directories included, has in the new session the zip attributes (timestamp,
\* compression, access mode, comment) of the entry of the source.
CloneKeepsZipAttributes ==
    (cl.done /\ cl.out.exc = "none") =>
        LET copied == cl.out.new.val.zip.entries
        IN  \A i \in 1..Len(copied) :
                i <= Len(SourceEntries) => copied[i].attrs = SourceEntries[i].attrs

\* C13 witness: from_wheelfile returned a session cloned from a source that holds,
\* under its dist-info directory, an entry written with attributes of its own
ClonedCustomDistinfoEntry ==
    /\ cl.done /\ cl.out.exc = "none"
    /\ \E i \in 1..Len(SourceEntries) :
        /\ SourceEntries[i].attrs = CustomAttrs
        /\ SourceEntries[i].filename = DistinfoPath(cl.src.wf, <<"notes">>, ".dist-info")
        /\ cl.out.new.val.zip.entries[i].data = SourceEntries[i].data

\* the simple tags of a compressed tag, listed with the language alternatives
\* outermost, then the abi alternatives, then the platform alternatives
ProductInOrder(tag) ==
    LET parts == Split(tag, "-")
        langs == Split(parts[1], ".")
        abis == Split(parts[2], ".")
        plats == Split(parts[3], ".")
    IN  [ k \in 1..(Len(langs) * Len(abis) * Len(plats)) |->
            langs[((k - 1) \div (Len(abis) * Len(plats))) + 1] \o <<"-">>
            \o abis[(((k - 1) \div Len(plats)) % Len(abis)) + 1] \o <<"-">>
            \o plats[((k - 1) % Len(plats)) + 1] ]

\* the listing of all the tags of a list of compressed tags
RECURSIVE ProductsInOrder(_)
ProductsInOrder(tags) ==
    IF tags = <<>> THEN <<>> ELSE ProductInOrder(Head(tags)) \o ProductsInOrder(Tail(tags))

\* C14 as stated: the tags of WheelData(tags=t) are the simple tags of each
\* compressed tag of t listed in one fixed order, the language alternatives
\* outermost, then the abi alternatives, then the platform alternatives.
TagsExpandInOrder ==
    (pure.op = "tags" /\ pure.done) => pure.out = ProductsInOrder(pure.arg)

\* C14 amended: the tags of WheelData(tags=t) are, for each compressed tag of t in
\* the order of t, every combination of its language, abi and platform
\* alternatives exactly once, the combinations of one compressed tag in any order.
TagsExpandToProduct ==
    (pure.op = "tags" /\ pure.done) =>
        LET size(i) == Len(ProductInOrder(pure.arg[i]))
            before(i) == Len(ProductsInOrder(SubSeq(pure.arg, 1, i - 1)))
        IN  /\ Len(pure.out) = Len(ProductsInOrder(pure.arg))
            /\ \A i \in 1..Len(pure.arg) :
                SeqToSet(SubSeq(pure.out, before(i) + 1, before(i) + size(i)))
                    = SeqToSet(ProductInOrder(pure.arg[i]))

\* C14 witness: a tag with two language and two abi alternatives was expanded
\* and the list does not begin with the first language and the first abi
ExpandedOutOfOrder ==
    /\ pure.op = "tags" /\ pure.done
    /\ pure.arg = << <<"py2", ".", "py3", "-", "cp2", ".", "cp3", "-", "manylinux1">> >>
    /\ Len(pure.out) = 4
    /\ pure.out[1] = <<"py3", "-", "cp3", "-", "manylinux1">>

\* ------------------------------------------------------ opening a session

NameOf5 == <<"d", "-", "1", "-", "py3", "-", "none", "-", "any", ".whl">>

NameOf6 == <<"d", "-", "1", "-", "7", "-", "cp3", "-", "none", "-", "any", ".whl">>

\* the targets of WheelFile(): a buffer, a directory, a named file object, and
\* paths to files whose names have five and six segments, a third segment that
\* is no number, an empty distname, no version, an empty and an invalid
\* version, three segments, no '.whl' at the end, and a distname only before
\* the '-
OpenTargets ==
    { Target("buffer", "B1", <<>>),
      Target("path", "", <<"dir1">>),
      Target("fileobj", "F1", <<"dir1", "/">> \o NameOf5),
      Target("path", "", <<"dir1", "/">> \o NameOf5),
      Target("path", "", <<"dir2", "/">> \o NameOf6) }
    \cup { Target("path", "", name) :
            name \in { <<"d", "-", "1", "-", "x", "-", "cp3", "-", "none", "-", "any", ".whl">>,
                       <<"-", "1", "-", "py3", "-", "none", "-", "any", ".whl">>,
                       <<"d", ".whl">>,
                       <<"d", "-", "-", "py3", "-", "none", "-", "any", ".whl">>,
                       <<"d", "-", "bad", "-", "py3", "-", "none", "-", "any", ".whl">>,
                       <<"d", "-", "1", "-", "x", ".whl">>,
                       <<"d", "-", "1", "-", "py3", "-", "none", "-", "any">>,
                       <<"d", "-", ".whl">> } }

\* the identity arguments of WheelFile(): None, an empty string, or a value
OpenArgs ==
    { IdentityArgs(distname, version, build_tag, language_tag, abi_tag, platform_tag) :
        distname \in {NoneVal, Some(<<"e">>), Some(<<>>), Some(<<"e", "@">>)},
        version \in {NoneVal, Some(<<"2">>), Some(<<"bad">>)},
        build_tag \in {NoneVal, Some(7)},
        language_tag \in {NoneVal, Some(<<>>), Some(<<"py2">>)},
        abi_tag \in {NoneVal, Some(<<"cp2">>)},
        platform_tag \in {NoneVal, Some(<<"x">>)} }

\* the archive of a wheel d-1 whose WHEEL file has the given build
BuiltArchive(build, record) ==
    Archive(Some(MetaDataStr(NewMetaData(<<"d">>, <<"1">>))),
            Some(WheelDataStr(The(NewWheelData(DefaultGenerator, TRUE, <<SessionTag>>, build)))),
            record)

\* what the buffers and files hold before the call: wheels without a build and
\* with build 7, and a wheel without RECORD
OpenStore ==
    LET record == Some(RecordStr(EmptyRecord))
    IN  (<<"B1">> :> BuiltArchive(NoneVal, record))
        @@ (<<"dir1", "/">> \o NameOf5 :> BuiltArchive(Some(7), record))
        @@ (<<"dir2", "/">> \o NameOf6 :> BuiltArchive(Some(7), record))
        @@ (<<"d", "-", "1", "-", "x", ".whl">> :> BuiltArchive(NoneVal, NoneVal))

InitOpen ==
    /\ zip = Idle /\ wf = Idle /\ last = Idle /\ calls = 0 /\ pure = Idle /\ rd = Idle
    /\ cl = Idle /\ rc = Idle /\ bd = Idle
    /\ ct = [done |-> FALSE, store |-> OpenStore]

\* WheelFile(target, mode, distname=..., version=..., build_tag=..., ...)
DoWheelFileInit ==
    /\ ~ct.done
    /\ \E t \in OpenTargets, mode \in {"w", "wl", "r", "rl"}, args \in OpenArgs :
        \E out \in WheelFileInit(t, mode, args, ct.store) :
            ct' = [done |-> TRUE, store |-> ct.store, target |-> t, mode |-> mode,
                   args |-> args, out |-> out]
    /\ UNCHANGED <<zip, wf, last, calls, pure, rd, cl, rc, bd>>

NextOpen == DoWheelFileInit

SpecOpen == InitOpen /\ [][NextOpen]_vars

\* the target names a file, and the segments of its name less the '.whl'
NamedTarget == ct.target.kind # "buffer" /\ NormArcname(ct.target.path) \notin FsDirs

StemSegments ==
    LET name == Resolved(ct.target.path)
    IN  Split(IF EndsWith(name, <<".whl">>) THEN SubSeq(name, 1, Len(name) - 1) ELSE name, "-")

\* each identity component of the opened session is the argument when one is
\* given and otherwise the segment of the file name; given(a) tells whether the
\* tag argument a counts as given
IdentityFromName(given(_)) ==
    LET seg == StemSegments
        n == Len(seg)
        w == ct.out.wf
        a == ct.args
    IN  /\ w.distname = IF IsNone(a.distname) THEN seg[1] ELSE a.distname.val
        /\ w.version = IF IsNone(a.version) THEN seg[2] ELSE a.version.val
        /\ w.build_tag = IF ~IsNone(a.build_tag) THEN a.build_tag
                         ELSE IF n = 6 /\ IsDecimal(seg[3]) THEN Some(ParseInt(seg[3]))
                         ELSE NoneVal
        /\ w.language_tag = IF given(a.language_tag) THEN a.language_tag.val ELSE seg[n - 2]
        /\ w.abi_tag = IF given(a.abi_tag) THEN a.abi_tag.val ELSE seg[n - 1]
        /\ w.platform_tag = IF given(a.platform_tag) THEN a.platform_tag.val ELSE seg[n]

NotNone(a) == ~IsNone(a)

NotEmpty(a) == ~IsNone(a) /\ a.val # <<>>

\* C15 as stated: for a target that names a file whose stem has five or six
\* segments, each of distname, version, build tag, language, abi and platform of
\* the opened session is the argument when one is given, and otherwise the
\* segment of the stem (the build tag the third of six segments when it is a
\* number, and absent otherwise).
OpenedIdentityFromName ==
    (ct.done /\ ct.out.exc = "none" /\ NamedTarget /\ Len(StemSegments) \in {5, 6})
        => IdentityFromName(NotNone)

\* C15 amended: the same, a tag argument that is an empty string counting as not
\* given.
OpenedIdentityFromNameOrTag ==
    (ct.done /\ ct.out.exc = "none" /\ NamedTarget /\ Len(StemSegments) \in {5, 6})
        => IdentityFromName(NotEmpty)

\* C15 witness: a session was opened on a file with a six-segment name, with a
\* distname, an empty language tag and an abi tag given and no version, build tag
\* or platform tag
OpenedSixSegments ==
    /\ ct.done /\ ct.out.exc = "none" /\ NamedTarget /\ Len(StemSegments) = 6
    /\ ct.args.distname = Some(<<"e">>) /\ IsNone(ct.args.version)
    /\ IsNone(ct.args.build_tag) /\ ct.args.language_tag = Some(<<>>)
    /\ ct.args.abi_tag = Some(<<"cp2">>) /\ IsNone(ct.args.platform_tag)
    /\ ct.out.wf.build_tag = Some(7)

\* neither an argument nor the file name tells the distname or the version
Undetermined ==
    LET seg == StemSegments
        a == ct.args
    IN  IF ~NamedTarget THEN IsNone(a.distname) \/ IsNone(a.version)
        ELSE \/ IsNone(a.distname) /\ seg[1] = <<>>
             \/ IsNone(a.version) /\ (Len(seg) < 2 \/ seg[2] = <<>>)

\* C16: WheelFile() fails with UnnamedDistributionError exactly when the distname
\* or the version cannot be determined (a buffer or a directory without the
\* distname or the version argument; a file name with an empty distname segment,
\* or with no or an empty version segment, and no argument for it); a version that
\* is there and is not valid fails with a ValueError that is no
\* UnnamedDistributionError.
OpenFailsUnnamed ==
    ct.done =>
        LET a == ct.args
            version == IF IsNone(a.version) THEN StemSegments[2] ELSE a.version.val
        IN  /\ ct.out.exc = "UnnamedDistributionError" <=> Undetermined
            /\ (~Undetermined /\ version \notin ValidVersions) => ct.out.exc = "ValueError"

\* C16 witness: WheelFile() was called without arguments on a file whose name has
\* nothing between the '-' after the distname and '.whl'
OpenedEmptyLastSegment ==
    /\ ct.done /\ NamedTarget
    /\ Resolved(ct.target.path) = <<"d", "-", ".whl">>
    /\ IsNone(ct.args.distname) /\ IsNone(ct.args.version)
    /\ ct.out.exc # "none"

\* C17: a language, abi or platform tag that is not given is py3, none or any
\* only when the target is a buffer or a directory; for a target that names a
\* file it is the segment of a stem of five or six segments, and for any other
\* stem the empty string, the build tag that is not given being absent.
OpenedDefaultTags ==
    (ct.done /\ ct.out.exc = "none") =>
        LET seg == StemSegments
            n == Len(seg)
            w == ct.out.wf
            a == ct.args
            whole == NamedTarget /\ n \in {5, 6}
        IN  /\ IsNone(a.language_tag) =>
                w.language_tag = IF ~NamedTarget THEN <<"py3">>
                                 ELSE IF whole THEN seg[n - 2] ELSE <<>>
            /\ IsNone(a.abi_tag) =>
                w.abi_tag = IF ~NamedTarget THEN <<"none">>
                            ELSE IF whole THEN seg[n - 1] ELSE <<>>
            /\ IsNone(a.platform_tag) =>
                w.platform_tag = IF ~NamedTarget THEN <<"any">>
                                 ELSE IF whole THEN seg[n] ELSE <<>>
            /\ (NamedTarget /\ ~whole /\ IsNone(a.build_tag)) => IsNone(w.build_tag)

\* C17 witness: a session was opened, with no tag given, on a file whose name has
\* three segments
OpenedThreeSegments ==
    /\ ct.done /\ ct.out.exc = "none" /\ ct.mode = "w"
    /\ NamedTarget /\ Len(StemSegments) = 3
    /\ IsNone(ct.args.build_tag) /\ IsNone(ct.args.language_tag)
    /\ IsNone(ct.args.abi_tag) /\ IsNone(ct.args.platform_tag)
    /\ ct.out.wf.platform_tag = <<>>

\* what a validated session is: a distname that is not empty and is made of
\* letters, digits, '.' and '_', a filename that ends in '.whl', the three models
\* present, and the build of the wheeldata equal to the build tag
WellFormed(z, w) ==
    /\ w.distname # <<>>
    /\ \A i \in 1..Len(w.distname) : w.distname[i] \in ValidDistnameTokens
    /\ EndsWith(Filename(z, w), <<".whl">>)
    /\ ~IsNone(w.metadata) /\ ~IsNone(w.wheeldata) /\ ~IsNone(w.record)
    /\ w.wheeldata.val.build = w.build_tag

\* C18: a WheelFile() call without lazy mode that returns gives a well-formed
\* session, and a call whose session would not be well-formed (the one the same
\* call gives in lazy mode) raises ValueError.
OpenedWellFormed ==
    (ct.done /\ ~Lazy(ct.mode)) =>
        /\ ct.out.exc = "none" => WellFormed(ct.out.zip, ct.out.wf)
        /\ \A o \in WheelFileInit(ct.target, IF ct.mode = "r" THEN "rl" ELSE "wl", ct.args,
                                  ct.store) :
            (o.exc = "none" /\ ~WellFormed(o.zip, o.wf)) => ct.out.exc \in ValueErrors

\* C18 witness: without lazy mode, a session with a build tag was opened to read
\* a wheel whose WHEEL file has a build
OpenedToReadBuild ==
    /\ ct.done /\ ct.mode = "r" /\ ct.out.exc = "none"
    /\ ct.out.wf.build_tag = Some(7)
    /\ IsNone(ct.args.build_tag)

\* ------------------------------------------------------------- WheelRecord

RecordItself == <<"d", "-", "1", ".dist-info", "/", "RECORD">>

\* the paths update and remove are called with: files, a directory, the RECORD
\* file of a wheel, and a file named RECORD at the top of the archive
RecordPaths == { <<"a">>, <<"pkg", "/">>, RecordItself, <<"RECORD">> }

\* the texts from_str is called with: no row, rows of files, the row of a
\* directory first and after the row of a file and a blank line, a row of four
\* fields, a row of the path only, and the row of the RECORD file
RecordInputs ==
    { <<>>,
      RecordRow(RecordEntry(<<"a">>, <<"x">>)) \o RecordRow(RecordEntry(<<"b">>, <<>>)),
      <<"pkg", "/", ",", ",", "\r\n">>,
      RecordRow(RecordEntry(<<"a">>, <<"x">>)) \o <<"\r\n", "pkg", "/", ",", ",">>,
      <<"a", ",", "x", ",", "1", ",", "y", "\r\n">>,
      <<"a", "\r\n">>,
      RecordRow(RecordEntry(<<"a">>, <<"x">>)) \o RecordItself \o <<",", ",", "\r\n">> }

\* WheelRecord()
InitRecord ==
    /\ zip = Idle /\ wf = Idle /\ last = Idle /\ calls = 0 /\ pure = Idle /\ rd = Idle
    /\ cl = Idle /\ ct = Idle /\ bd = Idle
    /\ rc = [records |-> EmptyRecord, n |-> 0, last |-> [op |-> "init"]]

\* record.update(path, stream), the stream holding data and standing at pos
DoRecordUpdate ==
    /\ rc.n < MaxRecordCalls
    /\ \E path \in RecordPaths, data \in {<<>>, <<"x">>}, pos \in {0, 1} :
        LET u == RecordUpdate(rc.records, path, data, pos)
        IN  rc' = [records |-> u.records, n |-> rc.n + 1,
                   last |-> [op |-> "update", path |-> path, data |-> data, pos |-> pos,
                             exc |-> u.exc, pre |-> rc.records]]
    /\ UNCHANGED <<zip, wf, last, calls, pure, rd, cl, ct, bd>>

\* record.remove(path)
DoRecordRemove ==
    /\ rc.n < MaxRecordCalls
    /\ \E path \in RecordPaths :
        LET r == RecordRemove(rc.records, path)
        IN  rc' = [records |-> r.records, n |-> rc.n + 1,
                   last |-> [op |-> "remove", path |-> path, exc |-> r.exc,
                             pre |-> rc.records]]
    /\ UNCHANGED <<zip, wf, last, calls, pure, rd, cl, ct, bd>>

\* record = WheelRecord.from_str(text): the object it returns takes the place of
\* the record; when it raises there is no new object and the record stays
DoRecordFromStr ==
    /\ rc.n < MaxRecordCalls
    /\ \E text \in RecordInputs :
        LET r == RecordFromStr(text)
        IN  rc' = [records |-> IF r.exc = "none" THEN r.records ELSE rc.records,
                   n |-> rc.n + 1,
                   last |-> [op |-> "from_str", text |-> text, exc |-> r.exc,
                             pre |-> rc.records]]
    /\ UNCHANGED <<zip, wf, last, calls, pure, rd, cl, ct, bd>>

NextRecord ==
    \/ DoRecordUpdate
    \/ DoRecordRemove
    \/ DoRecordFromStr

SpecRecord == InitRecord /\ [][NextRecord]_vars

\* C19: in every state of a WheelRecord, after any calls of update, remove and
\* from_str, no entry has a path that ends in '/' and no entry describes the
\* RECORD file itself.
RecordHoldsFilesOnly ==
    \A i \in 1..Len(rc.records) :
        /\ ~EndsWith(rc.records[i].path, <<"/">>)
        /\ ~EndsWith(rc.records[i].path, <<".dist-info", "/", "RECORD">>)

\* C19 witness: from_str returned a record for a text that has a row for the
\* RECORD file
RecordReadWithItself ==
    /\ rc.last.op = "from_str" /\ rc.last.exc = "none"
    /\ RecordHas(rc.records, RecordItself)

\* the rows of a text, as from_str reads them, have one for a directory
HasDirectoryRow(text) ==
    LET rows == RecordRows(CsvLines(text))
    IN  \E i \in 1..Len(rows) : EndsWith(rows[i][1], <<"/">>)

\* update and from_str refuse a directory and add no entry, and an update with
\* a path that rejected(path) does not hold for stores the hash and the size of
\* the stream
RecordCalls(rejected(_)) ==
    LET l == rc.last
    IN  /\ (l.op = "update" /\ l.pos = 0 /\ EndsWith(l.path, <<"/">>)) =>
            l.exc = "RecordContainsDirectoryError" /\ rc.records = l.pre
        /\ (l.op = "from_str" /\ HasDirectoryRow(l.text)) =>
            l.exc = "RecordContainsDirectoryError" /\ rc.records = l.pre
        /\ (l.op = "update" /\ l.pos = 0 /\ ~rejected(l.path)) =>
            /\ l.exc = "none"
            /\ RecordHas(rc.records, l.path)
            /\ RecordGet(rc.records, l.path).hash
                = <<"sha256", "=">> \o HashEncoder(Digest(l.data))
            /\ RecordGet(rc.records, l.path).size = DecStr(Len(l.data))
            /\ Len(rc.records) = Len(l.pre) + (IF RecordHas(l.pre, l.path) THEN 0 ELSE 1)

IsDirectoryPath(path) == EndsWith(path, <<"/">>)

IsDirectoryOrRecordPath(path) ==
    EndsWith(path, <<"/">>) \/ EndsWith(path, <<".dist-info", "/", "RECORD">>)

SubdirRecordWritten ==
    (/\ last.op = "writestr"
     /\ last.args.name = <<"sub", "/", ".dist-info", "/", "RECORD">>
     /\ ~Closed(last.pre.zip))
        => last.exc = "none"

\* C21 witness: writestr was called with such a path on an open session that
\* keeps a record
SubdirRecordWriteWithRecord ==
    /\ last.op = "writestr"
    /\ last.args.name = <<"sub", "/", ".dist-info", "/", "RECORD">>
    /\ ~Closed(last.pre.zip)
    /\ ~IsNone(last.pre.wf.record)
    /\ ZipHas(zip, last.args.name)

\* C22: when writestr, writestr_data or writestr_distinfo is given a ZipInfo and
\* returns, the entry it stored carries the fields of that ZipInfo, and close()
\* leaves the entries stored before it as they were, so that the fields are read
\* back unchanged from the reopened archive.
ZipInfoFieldsKept ==
    /\ (/\ last.op \in {"writestr", "writestr_data", "writestr_distinfo"}
        /\ last.args.given.iszinfo
        /\ last.exc = "none")
            => /\ Len(Appended) = 1
               /\ Appended[1].attrs = last.args.given.attrs
    /\ (last.op = "close" /\ last.exc = "none")
            => \A i \in 1..Len(last.pre.zip.entries) : zip.entries[i] = last.pre.zip.entries[i]

\* C22 witness: writestr_data or writestr_distinfo was given a ZipInfo with fields
\* of its own and returned
ZipInfoGivenToDataWrite ==
    /\ last.op \in {"writestr_data", "writestr_distinfo"}
    /\ last.args.given.iszinfo
    /\ last.args.given.attrs = CustomAttrs
    /\ last.exc = "none"

\* ------------------------------------------- wheels built from a directory tree

\* ZipFile.writestr given a name stamps the entry with the time of the call: the
\* entries, those of them that were written under a plain name stamped with the
\* reading of the clock
Timestamped(entries, now) ==
    [i \in 1..Len(entries) |->
        IF entries[i].attrs = DefaultAttrs
        THEN [entries[i] EXCEPT !.attrs = <<DefaultAttrs, now>>]
        ELSE entries[i]]

\* wf = WheelFile(target, 'w', distname="d", version="1"); wf.write(tree);
\* wf.close(): the archives that may come of it, the dist-info files written by
\* close() stamped with the clock as close() read it
Build(tree, skipdir, listing, now) ==
    { LET written == Write(s.zip, s.wf, tree, NoneVal, TRUE, TRUE, skipdir, listing)
          closed == Close(written.zip, written.wf)
      IN  [exc |-> IF written.exc # "none" THEN written.exc ELSE closed.exc,
           archive |-> SubSeq(closed.zip.entries, 1, Len(written.zip.entries))
                       \o Timestamped(SubSeq(closed.zip.entries,
                                             Len(written.zip.entries) + 1,
                                             Len(closed.zip.entries)), now)] :
      s \in WheelFileInit(Target("buffer", "B1", <<>>), "w", SessionArgs, EmptyStore) }

InitBuild ==
    /\ zip = Idle /\ wf = Idle /\ last = Idle /\ calls = 0 /\ pure = Idle /\ rd = Idle
    /\ cl = Idle /\ ct = Idle /\ rc = Idle
    /\ bd = <<>>

\* one more wheel is built, by a fresh session, no earlier than the one before it
DoBuild ==
    /\ Len(bd) < MaxBuilds
    /\ \E tree \in {<<"D">>, <<"pkg">>}, skipdir \in BOOLEAN, listing \in Listings,
          now \in 1..MaxClock :
        /\ bd # <<>> => now >= bd[Len(bd)].now
        /\ \E b \in Build(tree, skipdir, listing, now) :
            bd' = Append(bd, [tree |-> tree, skipdir |-> skipdir, listing |-> listing,
                              now |-> now, exc |-> b.exc, archive |-> b.archive])
    /\ UNCHANGED <<zip, wf, last, calls, pure, rd, cl, ct, rc>>

NextBuild == DoBuild

SpecBuild == InitBuild /\ [][NextBuild]_vars

\* the names of the entries of an archive, in the order of the archive
EntryNames(archive) == [i \in 1..Len(archive) |-> archive[i].filename]

\* two wheels were built from the same tree with the same arguments
SameTree(i, j) ==
    /\ bd[i].tree = bd[j].tree
    /\ bd[i].skipdir = bd[j].skipdir
    /\ bd[i].exc = "none"
    /\ bd[j].exc = "none"

\* C23: the names and the order of the entries that a recursive write() of a
\* directory tree produces depend on the tree only, not on the order in which the
\* filesystem lists each directory, and two fresh sessions with the same identity
\* that write the same tree and are then closed produce identical archives.
BuildsReproducible ==
    \A i, j \in 1..Len(bd) :
        SameTree(i, j) =>
            /\ EntryNames(bd[i].archive) = EntryNames(bd[j].archive)
            /\ bd[i].archive = bd[j].archive

\* C23 witness: the same tree was written twice, the filesystem listing its
\* directories in two different orders, and the second wheel was closed at a
\* later reading of the clock
BuiltTwiceListedDifferently ==
    /\ Len(bd) = 2
    /\ SameTree(1, 2)
    /\ bd[1].tree = <<"D">>
    /\ bd[1].listing[<<"D">>].dirs # bd[2].listing[<<"D">>].dirs
    /\ bd[1].listing[<<"D">>].files # bd[2].listing[<<"D">>].files
    /\ bd[1].now < bd[2].now
    /\ Len(bd[1].archive) = 7

\* the number of entries the archive holds under a name
EntryCount(z, name) == Cardinality({i \in 1..Len(z.entries) : z.entries[i].filename = name})

\* C24: after close() of a session in a write mode that every write operation
\* before it returned from, the archive holds exactly one entry under each of
\* the dist-info METADATA, WHEEL and RECORD paths.
MetadataFilesNotDuplicated ==
    (/\ last.op = "close"
     /\ last.allok
     /\ ~Closed(last.pre.zip)
     /\ ~ReadMode(wf.mode)
     /\ ~IsNone(wf.metadata) /\ ~IsNone(wf.wheeldata) /\ ~IsNone(wf.record))
        => \A name \in MetadataFilenames :
               EntryCount(zip, DistinfoPath(wf, name, ".dist-info")) = 1

\* C24 witness: a session was closed after a write into its dist-info directory
\* that returned
ClosedAfterDistinfoWrite ==
    /\ last.op = "close"
    /\ last.allok
    /\ ~Closed(last.pre.zip)
    /\ ~IsNone(wf.metadata) /\ ~IsNone(wf.wheeldata) /\ ~IsNone(wf.record)
    /\ \E i \in 1..Len(last.pre.zip.entries) :
           last.pre.zip.entries[i].filename = DistinfoPath(wf, <<"METADATA">>, ".dist-info")

\* ------------------------------------------------- refresh_record on a session

\* the paths refresh_record is called with: of a file, of a directory, of no
\* entry, and of a RECORD file in a subdirectory
RefreshPaths ==
    {<<"a">>, <<"sub", "/">>, <<"y">>, <<"sub", "/", ".dist-info", "/", "RECORD">>}

\* the assignments wf.record = None and wf.record = WheelRecord(), or neither
WithRecord(w, assigned) ==
    CASE assigned = "None" -> [w EXCEPT !.record = NoneVal]
      [] assigned = "WheelRecord()" -> [w EXCEPT !.record = Some(EmptyRecord)]
      [] assigned = "kept" -> w

\* the sessions refresh_record is called on: opened on a fresh buffer, up to two
\* entries written, the record left alone or assigned, then closed or not
RefreshSessions ==
    { [zip |-> c.zip, wf |-> c.wf] :
        c \in UNION { UNION { UNION { { r, Close(r.zip, r.wf) } :
                r \in { Result("none", v.zip, WithRecord(v.wf, assigned)) :
                        assigned \in {"kept", "None", "WheelRecord()"} } } :
            v \in { u, WriteStr(u.zip, u.wf, ArcStr(<<"sub", "/">>), <<>>),
                    WriteStr(u.zip, u.wf, ArcStr(<<"a">>), <<"y", "x">>),
                    WriteStr(u.zip, u.wf, ArcStr(<<"sub", "/", ".dist-info", "/", "RECORD">>),
                             <<"x">>) } } :
          u \in UNION { { Result("none", s.zip, s.wf),
                          WriteStr(s.zip, s.wf, ArcStr(<<"a">>), <<"x">>) } :
                        s \in WheelFileInit(Target("buffer", "B1", <<>>), "w", SessionArgs,
                                            EmptyStore) } } }

InitRefresh ==
    /\ \E s \in RefreshSessions :
        /\ zip = s.zip
        /\ wf = s.wf
    /\ last = [op |-> "init", args |-> <<>>, exc |-> "none",
               pre |-> [zip |-> zip, wf |-> wf], allok |-> TRUE]
    /\ calls = 0
    /\ pure = Idle /\ rd = Idle /\ cl = Idle /\ ct = Idle /\ rc = Idle /\ bd = Idle

\* wf.refresh_record(path)
DoRefreshRecord ==
    /\ calls < MaxCalls
    /\ \E path \in RefreshPaths :
        Finish("refresh_record", [name |-> path], RefreshRecord(zip, wf, path))
    /\ calls' = calls + 1

NextRefresh == DoRefreshRecord

SpecRefresh == InitRefresh /\ [][NextRefresh]_vars

\* refresh_record returned and changed nothing
RefreshedNothing == last.exc = "none" /\ zip = last.pre.zip /\ wf = last.pre.wf

\* refresh_record returned, and the record holds for the path the hash and the
\* size of the bytes stored under it, its other entries being what they were
RefreshedEntry ==
    /\ last.exc = "none"
    /\ zip = last.pre.zip
    /\ RecordHas(wf.record.val, last.args.name)
    /\ RecordGet(wf.record.val, last.args.name)
           = RecordEntry(last.args.name, ZipRead(zip, last.args.name))
    /\ \A i \in 1..Len(last.pre.wf.record.val) :
           LET e == last.pre.wf.record.val[i]
           IN  e.path # last.args.name =>
                   RecordHas(wf.record.val, e.path) /\ RecordGet(wf.record.val, e.path) = e

\* the archive holds an entry under the path, and the record takes the path
Refreshable ==
    /\ ZipHas(last.pre.zip, last.args.name)
    /\ ~EndsWith(last.args.name, DistInfoRecordSuffix)

FailedWriteChangesNothing ==
    (last.op \in WriteOps /\ last.exc # "none") =>
        /\ zip.entries = last.pre.zip.entries
        /\ wf.record = last.pre.wf.record

\* C27 witness: a write operation raised on an open session that keeps a record,
\* after the archive took the entry
WriteRaisedAfterEntryWritten ==
    /\ last.op \in WriteOps
    /\ last.exc = "AssertionError"
    /\ ~Closed(last.pre.zip)
    /\ ~IsNone(last.pre.wf.record)
    /\ Len(zip.entries) = Len(last.pre.zip.entries) + 1

\* C28, as stated: once the session is closed it never becomes open again, and
\* every write operation called on it from then on raises and leaves the entries
\* of the archive and the record as they were.
ClosedRefusesEveryWrite ==
    [][Closed(zip) =>
          /\ Closed(zip')
          /\ last'.op \in WriteOps =>
                 /\ last'.exc # "none"
                 /\ zip'.entries = zip.entries
                 /\ wf'.record = wf.record]_vars

\* C28, amended: once the session is closed it never becomes open again, and
\* every write operation called on it from then on leaves the entries of the
\* archive and the record as they were; it raises when it is given a file, and
\* it may return only when what it is given is a directory.
ClosedTakesNoWrite ==
    [][Closed(zip) =>
          /\ Closed(zip')
          /\ last'.op \in WriteOps =>
                 /\ zip'.entries = zip.entries
                 /\ wf'.record = wf.record
                 /\ last'.op \in {"writestr", "writestr_data", "writestr_distinfo"}
                        => last'.exc # "none"
                 /\ last'.op \in {"write", "write_data", "write_distinfo"}
                        => /\ NormArcname(last'.args.filename) \in FsFiles
                                  => last'.exc # "none"
                           /\ last'.exc = "none"
                                  => NormArcname(last'.args.filename) \in FsDirs]_vars

\* C28 witness: write was called on a closed session with a directory that has
\* nothing in it to store
WroteDirectoryWhenClosed ==
    /\ last.op = "write"
    /\ Closed(last.pre.zip)
    /\ last.args.filename = <<"dir1">>
    /\ Len(zip.entries) >= 3

\* the target of the call is the very buffer or file object the source session
\* was opened on
TargetIsSourceObject ==
    /\ cl.target.kind \in {"buffer", "fileobj"}
    /\ cl.target.kind = cl.src.zip.target.kind
    /\ cl.target.id = cl.src.zip.target.id

\* C29: from_wheelfile given the buffer or the file object of the source session
\* raises ValueError and opens no session on it, the storage being left as it
\* was, be the source session open or closed.
CloneRefusesSourceObject ==
    (cl.done /\ TargetIsSourceObject) =>
        /\ cl.out.exc \in ValueErrors
        /\ IsNone(cl.out.new)
        /\ cl.out.store = cl.store

\* C29 witness: a closed source session was cloned in a write mode onto the
\* buffer it was opened on
ClonedClosedOntoOwnBuffer ==
    /\ cl.done /\ TargetIsSourceObject
    /\ cl.target.kind = "buffer"
    /\ Closed(cl.src.zip)
    /\ cl.mode = "w"
    /\ cl.out.exc = "ValueError"

\* C30: when WheelFile() in a write mode raises, the storage of the target holds
\* what it held before the call: neither the constructor nor the finalizer that
\* runs on the abandoned object has created a file or written an entry.
FailedOpenWritesNothing ==
    (ct.done /\ ~ReadMode(ct.mode) /\ ct.out.exc # "none") => ct.out.store = ct.store

\* C30 witness: WheelFile() was called in mode 'w' on a buffer with a distname
\* that validate() refuses, and raised
OpenedWithInvalidDistname ==
    /\ ct.done
    /\ ct.mode = "w"
    /\ ct.target.kind = "buffer"
    /\ ct.args.distname = Some(<<"e", "@">>)
    /\ ct.args.version = Some(<<"2">>)
    /\ ct.out.exc = "ValueError"

====
